---------------------------- MODULE Spec2Model ----------------------------
(***************************************************************************)
(* Frame lifecycle of the cpyte-engine renderer (src/src/renderer.rs):     *)
(* Renderer::new, main's event loop and Renderer::draw_frame on the CPU,   *)
(* with the graphics queue and the presentation engine as the concurrent   *)
(* parties that fences and semaphores synchronise with.                    *)
(*                                                                         *)
(* Vectors are functions over 0..len-1, as the code indexes them.          *)
(***************************************************************************)
EXTENDS Integers, Sequences, FiniteSets, TLC

\* ------------------------------------------------------------------ bounds
\* Largest number of swapchain images the device may hand out.
MaxImages == 3
\* Largest number of entities in the scene graph.
MaxEntities == 2
\* Number of event-loop ticks (draw_frame calls) explored.
MaxFrames == 3

\* Largest number of elements of an uploaded vertex or index array.
MaxLen == 2
\* Largest width and height of a texture.
MaxExtent == 4

\* Largest number of surface formats, and of present modes, a surface reports.
MaxListLen == 3

\* -------------------------------------------------------- program constants
MAX_FLIGHT_FRAMES_COUNT == 2

Slots == 0 .. (MAX_FLIGHT_FRAMES_COUNT - 1)

NoImage == -1

VARIABLES
    nImages,            \* swapchain.images.len()
    nEntities,          \* scene_graph.entities_with_names.len()
    rotation,           \* on_update calls applied to every entity's rotation
    frame,              \* Renderer.frame, the in-flight slot index
    pc,                 \* position of the CPU thread
    image_index,        \* draw_frame's local image_index
    calls,              \* draw_frame calls that have returned
    steps,              \* API calls made so far by the current draw_frame call
    signaled_fences,    \* Renderer.signaled_fences
    unsignaled_fences,  \* Renderer.unsignaled_fences
    wait_semaphores,    \* Renderer.wait_semaphores: signals not yet consumed
    signal_semaphores,  \* Renderer.signal_semaphores: signals not yet consumed
    command_buffers,    \* Renderer.command_buffers
    uniform_buffers,    \* Renderer.uniform_buffers (contents)
    vertex_buffers,     \* Renderer.vertex_buffers
    index_buffers,      \* Renderer.index_buffers
    texture_images,     \* Renderer.texture_images
    texture_samplers,   \* Renderer.texture_samplers
    descriptor_sets,    \* Renderer.descriptor_sets
    submissions,        \* per slot: the last batch given to the graphics queue
    acquires,           \* per slot: the acquire whose semaphore signal is outstanding
    presentQ,           \* present requests not yet processed
    nullFenceUse        \* a null fence handle was given to a wait or a reset

entityMaps == <<vertex_buffers, index_buffers, texture_images,
                texture_samplers, descriptor_sets>>

scene == <<nImages, nEntities>>

\* Buffer::fill, Image::fill and CommandExecutor::execute (the uploads of
\* Renderer::new).
VARIABLES
    fill_target,        \* "Buffer" or "Image": whose fill is running
    values,             \* the source array: its element size and its elements
    extent,             \* Image.extent of the image being filled
    fill_pc,            \* position of the CPU thread in fill
    staging_buffer,     \* the staging buffer fill creates
    dst_buffer,         \* memory of the buffer being filled
    image_levels,       \* per mip level of the image being filled: its layout
    command_buffer,     \* the one-shot command buffer of CommandExecutor::execute
    exec_pc,            \* position of the CPU thread in CommandExecutor::execute
    fill_log,           \* API calls made so far by fill
    linear_filter,      \* the device filters R8G8B8A8_SRGB images linearly
    errors,             \* messages given to error!
    queue               \* graphics queue: submitted commands not yet executed

\* The selection functions of the setup: the one being applied, its argument
\* and its result.
VARIABLES callee, argument, returned

\* Drop for Renderer.
VARIABLES
    color_image,        \* Renderer.color_image: "Some" or "None"
    drop_pc,            \* position of the CPU thread in drop
    created,            \* objects created so far and not yet destroyed by new
    destroyed           \* destroy calls made so far, in order

upload == <<fill_target, values, extent, fill_pc, staging_buffer, dst_buffer,
            image_levels, command_buffer, exec_pc, fill_log, linear_filter,
            errors>>

\* What fill is given.
given == <<fill_target, values, extent, linear_filter>>

selection == <<callee, argument, returned>>

teardown == <<color_image, drop_pc, created, destroyed>>

frameLoop == <<nImages, nEntities, rotation, frame, pc, image_index, calls,
               steps, signaled_fences, unsignaled_fences, wait_semaphores,
               signal_semaphores, command_buffers, uniform_buffers,
               vertex_buffers, index_buffers, texture_images,
               texture_samplers, descriptor_sets, submissions, acquires,
               presentQ, nullFenceUse>>

\* What the frame loop leaves alone.
outsideFrameLoop == <<upload, queue, selection, teardown>>

vars == <<frameLoop, upload, queue, selection, teardown>>

Images == 0 .. (nImages - 1)

\* Entities in the iteration order of entities_with_names.values(); the id of
\* the k-th entity is k.
Entities == 1 .. nEntities

Min(a, b) == IF a < b THEN a ELSE b

\* ------------------------------------------------------------------ fence.rs
\* Fence::new: a created, signaled fence, or the null handle.
Fence_new(signaled) ==
    IF signaled THEN [null |-> FALSE, signaled |-> TRUE]
                ELSE [null |-> TRUE, signaled |-> FALSE]

Fence_is_null(f) == f.null

\* Variant: Fence::wait returns whatever the state of the fence.
Fence_wait_returns_AtOnce(f) == TRUE

\* Fence::wait returns once the fence is signaled (timeout u64::MAX).  A null
\* handle is invalid usage: the call does not block on it.
Fence_wait_returns(f) == f.null \/ f.signaled

Fence_reset(f) == IF f.null THEN f ELSE [f EXCEPT !.signaled = FALSE]

\* -------------------------------------------------------------- semaphore.rs
Semaphore_new == 0

\* A signal operation on a binary semaphore.  Signalling one that is still
\* signaled is invalid usage: the signal is lost or kept.
SignalOutcomes(c) == IF c = 0 THEN {1} ELSE {c, c + 1}

\* ---------------------------------------------------------- command_buffer.rs
CommandBuffer_new == [state |-> "initial", draws |-> <<>>]

CommandBuffer_reset(cb) == [state |-> "initial", draws |-> <<>>]

\* record_drawing: bind vertex and index buffer, bind the descriptor set, push
\* the model matrix, draw indexed.
DrawCall(vb, ib, ds, model) ==
    [vertex_buffer |-> vb, index_buffer |-> ib, descriptor_set |-> ds,
     model_matrix |-> model]

\* ------------------------------------------------------------------ buffer.rs
\* Variant: the update writes every uniform buffer.
UniformBuffer_update_All(buffers, i) == [k \in DOMAIN buffers |-> "ubo"]

\* UniformBuffer::update on the i-th uniform buffer: the Ubo built from the
\* swapchain extent is copied into that buffer's mapped memory.
UniformBuffer_update(buffers, i) == [buffers EXCEPT ![i] = "ubo"]

\* ------------------------------------------------------------------ entity.rs
\* Entity::transform_matrix: scale * rotation * translation of that entity.
transform_matrix(e, rot) == <<"model", e, rot>>


\* ---------------------------------------------------------------- renderer.rs
\* Renderer::new: one uniform buffer per swapchain image, allocated and never
\* written.
NewUniformBuffers(n) == [i \in 0 .. (n - 1) |-> "uninit"]

\* Renderer::new: the per-entity maps are collected over the scene's entities
\* and keyed by entity id.
NewVertexBuffers(m) == [e \in 1 .. m |-> <<"vertex_buffer", e>>]

NewIndexBuffers(m) == [e \in 1 .. m |-> <<"index_buffer", e>>]

\* Renderer::new: one filled texture image per entity, keyed by entity id.
NewTextureImages(m) == [e \in 1 .. m |-> <<"texture_image", e>>]

\* Renderer::new: entities zipped with texture_images.values(): both run over
\* every entity, so every entity id gets a sampler.
NewTextureSamplers(m, images) ==
    [e \in 1 .. Min(m, Cardinality(DOMAIN images)) |-> <<"texture_sampler", e>>]

\* Renderer::new: uniform_buffers.iter().zip(entities): the k-th entity gets a
\* descriptor set bound to the k-th uniform buffer; zip ends with the shorter.
NewDescriptorSets(n, m) ==
    [e \in 1 .. Min(n, m) |->
        [handle |-> <<"descriptor_set", e>>, uniform_buffer |-> e - 1,
         texture_image |-> <<"texture_image", e>>,
         texture_sampler |-> <<"texture_sampler", e>>]]

\* Variant: one command buffer per in-flight slot instead of one per image.
NewCommandBuffers_PerSlot(n) == [i \in Slots |-> CommandBuffer_new]

\* Renderer::new: one command buffer per framebuffer, one framebuffer per
\* swapchain image view.
NewCommandBuffers(n) == [i \in 0 .. (n - 1) |-> CommandBuffer_new]

NewSemaphores == [s \in Slots |-> Semaphore_new]

\* Variant: the frame-done fences are created unsignaled.
NewSignaledFences_CreatedUnsignaled ==
    [s \in Slots |-> [null |-> FALSE, signaled |-> FALSE]]

NewSignaledFences == [s \in Slots |-> Fence_new(TRUE)]

\* Variant: the prior-use fences are created, unsignaled.
NewUnsignaledFences_Created ==
    [s \in Slots |-> [null |-> FALSE, signaled |-> FALSE]]

NewUnsignaledFences == [s \in Slots |-> Fence_new(FALSE)]

NoSubmission ==
    [state |-> "none", call |-> -1, command_buffer |-> NoImage,
     wait_semaphore |-> -1, signal_semaphore |-> -1, fence |-> -1,
     reads |-> {}, clobbered |-> FALSE]

NoAcquire == [image |-> NoImage, call |-> -1]

NoBuffer ==
    [state |-> "none", size |-> 0, usage |-> {}, memory_properties |-> {},
     memory |-> <<>>, mapped |-> -1, destroys |-> 0]

\* No upload is running.
NoUpload ==
    /\ fill_target = "none"
    /\ values = [T |-> "none", elements |-> <<>>]
    /\ extent = [width |-> 0, height |-> 0]
    /\ fill_pc = "none"
    /\ staging_buffer = NoBuffer
    /\ dst_buffer = <<>>
    /\ image_levels = <<>>
    /\ command_buffer = [state |-> "none", commands |-> <<>>]
    /\ exec_pc = "none"
    /\ fill_log = <<>>
    /\ linear_filter = FALSE
    /\ errors = <<>>

\* No selection function is being applied.
NoSelection == callee = "none" /\ argument = <<>> /\ returned = <<>>

\* The renderer is not being dropped.
NoDrop ==
    /\ color_image = "None"
    /\ drop_pc = "none"
    /\ created = {}
    /\ destroyed = <<>>

\* No renderer has been constructed.
NoRenderer ==
    /\ nImages = 0
    /\ nEntities = 0
    /\ rotation = 0
    /\ frame = 0
    /\ pc = "none"
    /\ image_index = NoImage
    /\ calls = 0
    /\ steps = <<>>
    /\ signaled_fences = <<>>
    /\ unsignaled_fences = <<>>
    /\ wait_semaphores = <<>>
    /\ signal_semaphores = <<>>
    /\ command_buffers = <<>>
    /\ uniform_buffers = <<>>
    /\ vertex_buffers = <<>>
    /\ index_buffers = <<>>
    /\ texture_images = <<>>
    /\ texture_samplers = <<>>
    /\ descriptor_sets = <<>>
    /\ submissions = <<>>
    /\ acquires = <<>>
    /\ presentQ = <<>>
    /\ nullFenceUse = FALSE

\* The state Renderer::new returns, for every image count the swapchain may
\* have and every scene size.
Renderer_new ==
    /\ nImages \in 1 .. MaxImages
    /\ nEntities \in 1 .. MaxEntities
    /\ rotation = 0
    /\ frame = 0
    /\ pc = "idle"
    /\ image_index = NoImage
    /\ calls = 0
    /\ steps = <<>>
    /\ signaled_fences = NewSignaledFences
    /\ unsignaled_fences = NewUnsignaledFences
    /\ wait_semaphores = NewSemaphores
    /\ signal_semaphores = NewSemaphores
    /\ command_buffers = NewCommandBuffers(nImages)
    /\ uniform_buffers = NewUniformBuffers(nImages)
    /\ vertex_buffers = NewVertexBuffers(nEntities)
    /\ index_buffers = NewIndexBuffers(nEntities)
    /\ texture_images = NewTextureImages(nEntities)
    /\ texture_samplers = NewTextureSamplers(nEntities, texture_images)
    /\ descriptor_sets = NewDescriptorSets(nImages, nEntities)
    /\ submissions = [s \in Slots |-> NoSubmission]
    /\ acquires = [s \in Slots |-> NoAcquire]
    /\ presentQ = <<>>
    /\ nullFenceUse = FALSE

\* The frame loop starts with the renderer main has constructed.
Init ==
    /\ Renderer_new
    /\ NoUpload
    /\ queue = <<>>
    /\ NoSelection
    /\ NoDrop

\* Variant: the present is issued before the submit.
After_PresentBeforeSubmit(step) ==
    CASE step = "wait_fence" -> "acquire"
      [] step = "acquire" -> "prior_fence"
      [] step = "prior_fence" -> "reset"
      [] step = "reset" -> "update"
      [] step = "update" -> "record"
      [] step = "record" -> "present"
      [] step = "present" -> "submit"
      [] step = "submit" -> "advance"
      [] step = "advance" -> "idle"

\* The order of the statements of draw_frame: the step that follows `step`.
After(step) ==
    CASE step = "wait_fence" -> "acquire"
      [] step = "acquire" -> "prior_fence"
      [] step = "prior_fence" -> "reset"
      [] step = "reset" -> "update"
      [] step = "update" -> "record"
      [] step = "record" -> "submit"
      [] step = "submit" -> "present"
      [] step = "present" -> "advance"
      [] step = "advance" -> "idle"

\* The semaphore draw_frame hands to next_image_index.
AcquireSemaphore(fr) == fr

\* The fence waited on first and handed to the submit.
FrameFence(fr) == fr

\* Variant: the prior-use fence is waited on without the null check.
PriorWaitNeeded_Unchecked(f) == TRUE

\* The prior-use fence is waited on only when its handle is not null.
PriorWaitNeeded(f) == ~Fence_is_null(f)

\* Variant: the submit waits on the other slot's acquire semaphore.
SubmitInfo_OtherSlotSemaphore(fr, img) ==
    [wait_semaphore |-> (fr + 1) % MAX_FLIGHT_FRAMES_COUNT,
     wait_stage |-> "COLOR_ATTACHMENT_OUTPUT",
     command_buffer |-> img, signal_semaphore |-> fr]

\* The SubmitInfo draw_frame builds.
SubmitInfo(fr, img) ==
    [wait_semaphore |-> fr, wait_stage |-> "COLOR_ATTACHMENT_OUTPUT",
     command_buffer |-> img, signal_semaphore |-> fr]

\* The PresentInfoKHR draw_frame builds: it waits on the submit's signal
\* semaphores.
PresentInfo(fr, img) ==
    [wait_semaphore |-> SubmitInfo(fr, img).signal_semaphore,
     image_index |-> img]

\* Variant: the slot index is advanced without the modulo.
NextFrame_NoWrap(fr) == fr + 1

\* self.frame = (self.frame + 1) % MAX_FLIGHT_FRAMES_COUNT
NextFrame(fr) == (fr + 1) % MAX_FLIGHT_FRAMES_COUNT

\* The draw of one entity as the closure of draw_frame records it.
EntityDraw(e) ==
    DrawCall(vertex_buffers[e], index_buffers[e], descriptor_sets[e].handle,
             transform_matrix(e, rotation))

\* The closure indexes the three maps by entity id; a missing key panics.
HasResources(e) ==
    /\ e \in DOMAIN vertex_buffers
    /\ e \in DOMAIN index_buffers
    /\ e \in DOMAIN descriptor_sets

\* Number of entities drawn before the first lookup that panics.
Drawable ==
    LET bad == {e \in Entities : ~HasResources(e)}
    IN IF bad = {} THEN nEntities
       ELSE (CHOOSE e \in bad : \A d \in bad : e <= d) - 1

RecordedDraws == [k \in 1 .. Drawable |-> EntityDraw(k)]

\* Uniform buffers a command buffer's draws read through their descriptor sets.
ReadsOf(draws) ==
    {descriptor_sets[e].uniform_buffer :
        e \in {d \in DOMAIN descriptor_sets :
                 \E k \in 1 .. Len(draws) :
                    draws[k].descriptor_set = descriptor_sets[d].handle}}

\* A batch the graphics queue has not finished.
Pending(s) == submissions[s].state = "pending"

\* ----------------------------------------------------------------- main.rs
\* Event::MainEventsCleared: scene_graph.on_update, then draw_frame is entered.
MainEventsCleared ==
    /\ pc = "idle"
    /\ calls < MaxFrames
    /\ rotation' = rotation + 1
    /\ steps' = <<>>
    /\ pc' = "wait_fence"
    /\ UNCHANGED <<outsideFrameLoop, scene, frame, image_index, calls, signaled_fences,
                   unsignaled_fences, wait_semaphores, signal_semaphores,
                   command_buffers, uniform_buffers, entityMaps, submissions,
                   acquires, presentQ, nullFenceUse>>

\* ------------------------------------------------------ renderer.rs draw_frame
\* The device calls CommandExecutor::execute makes besides those of its closure.
ExecuteCalls ==
    {"allocate_command_buffers", "begin_command_buffer", "end_command_buffer",
     "queue_submit", "queue_wait_idle", "free_command_buffers"}

\* Variant: the uniform buffer is written through a staging buffer and the
\* one-shot executor, as Buffer::fill writes a vertex buffer.
ApiCalls_UpdateByFill(op) ==
    IF op = "update"
    THEN {"create_buffer", "allocate_memory", "bind_buffer_memory", "map_memory",
          "unmap_memory", "cmd_copy_buffer", "destroy_buffer", "free_memory"}
            \cup ExecuteCalls
    ELSE {}

\* The device calls each statement of draw_frame makes.
ApiCalls(op) ==
    CASE op \in {"wait_fence", "prior_fence_wait"} -> {"wait_for_fences"}
      [] op = "acquire" -> {"acquire_next_image_khr"}
      [] op = "reset" -> {"reset_command_buffer"}
      [] op = "update" -> {"map_memory", "unmap_memory"}
      [] op = "record" ->
            {"begin_command_buffer", "cmd_begin_render_pass", "cmd_bind_pipeline",
             "cmd_set_viewport", "cmd_set_scissor", "cmd_bind_vertex_buffers",
             "cmd_bind_index_buffer", "cmd_bind_descriptor_sets",
             "cmd_push_constants", "cmd_draw_indexed", "cmd_end_render_pass",
             "end_command_buffer"}
      [] op = "reset_fence" -> {"reset_fences"}
      [] op = "submit" -> {"queue_submit"}
      [] op = "present" -> {"queue_present_khr"}
      [] op = "advance" -> {}

\* The device calls that do not return until the device has done something.
BlockingCalls ==
    {"wait_for_fences", "acquire_next_image_khr", "queue_wait_idle",
     "device_wait_idle"}

\* self.signaled_fences[self.frame].wait()
WaitFence ==
    /\ pc = "wait_fence"
    /\ Fence_wait_returns(signaled_fences[FrameFence(frame)])
    /\ nullFenceUse' =
          (nullFenceUse \/ Fence_is_null(signaled_fences[FrameFence(frame)]))
    /\ steps' = Append(steps, [op |-> "wait_fence",
                               fence |-> <<"signaled_fences", FrameFence(frame)>>])
    /\ pc' = After("wait_fence")
    /\ UNCHANGED <<outsideFrameLoop, scene, rotation, frame, image_index, calls, signaled_fences,
                   unsignaled_fences, wait_semaphores, signal_semaphores,
                   command_buffers, uniform_buffers, entityMaps, submissions,
                   acquires, presentQ>>

\* self.swapchain.next_image_index(self.wait_semaphores[self.frame].clone()):
\* the presentation engine returns the index of any image the application does
\* not hold, and signals the semaphore later, when the image can be written.
AcquireImage ==
    /\ pc = "acquire"
    /\ \E i \in Images :
          /\ image_index' = i
          /\ acquires' = [acquires EXCEPT ![AcquireSemaphore(frame)] =
                             [image |-> i, call |-> calls]]
          /\ steps' = Append(steps, [op |-> "acquire",
                                     semaphore |-> AcquireSemaphore(frame),
                                     image_index |-> i])
    /\ pc' = After("acquire")
    /\ UNCHANGED <<outsideFrameLoop, scene, rotation, frame, calls, signaled_fences,
                   unsignaled_fences, wait_semaphores, signal_semaphores,
                   command_buffers, uniform_buffers, entityMaps, submissions,
                   presentQ, nullFenceUse>>

\* if !self.unsignaled_fences[self.frame].is_null() { ....wait(); }
PriorFenceWait ==
    /\ pc = "prior_fence"
    /\ IF PriorWaitNeeded(unsignaled_fences[frame])
       THEN /\ Fence_wait_returns(unsignaled_fences[frame])
            /\ nullFenceUse' =
                  (nullFenceUse \/ Fence_is_null(unsignaled_fences[frame]))
            /\ steps' = Append(steps, [op |-> "prior_fence_wait",
                                       fence |-> <<"unsignaled_fences", frame>>])
       ELSE UNCHANGED <<nullFenceUse, steps>>
    /\ pc' = After("prior_fence")
    /\ UNCHANGED <<outsideFrameLoop, scene, rotation, frame, image_index, calls, signaled_fences,
                   unsignaled_fences, wait_semaphores, signal_semaphores,
                   command_buffers, uniform_buffers, entityMaps, submissions,
                   acquires, presentQ>>

\* self.command_buffers[image_index].reset(): a batch still executing that
\* command buffer is left to execute indeterminate commands.
ResetCommandBuffer ==
    /\ pc = "reset"
    /\ command_buffers' = [command_buffers EXCEPT ![image_index] =
                              CommandBuffer_reset(@)]
    /\ submissions' =
          [s \in Slots |->
              IF Pending(s) /\ submissions[s].command_buffer = image_index
              THEN [submissions[s] EXCEPT !.clobbered = TRUE]
              ELSE submissions[s]]
    /\ steps' = Append(steps, [op |-> "reset", command_buffer |-> image_index])
    /\ pc' = After("reset")
    /\ UNCHANGED <<outsideFrameLoop, scene, rotation, frame, image_index, calls, signaled_fences,
                   unsignaled_fences, wait_semaphores, signal_semaphores,
                   uniform_buffers, entityMaps, acquires, presentQ,
                   nullFenceUse>>

\* self.uniform_buffers[image_index].update(extent): a host write of the Ubo
\* into the buffer's mapped memory; a pending batch that reads the buffer
\* races with it.
UpdateUniformBuffer ==
    /\ pc = "update"
    /\ uniform_buffers' = UniformBuffer_update(uniform_buffers, image_index)
    /\ submissions' =
          [s \in Slots |->
              IF Pending(s) /\ image_index \in submissions[s].reads
              THEN [submissions[s] EXCEPT !.clobbered = TRUE]
              ELSE submissions[s]]
    /\ steps' = Append(steps, [op |-> "update", uniform_buffer |-> image_index])
    /\ pc' = After("update")
    /\ UNCHANGED <<outsideFrameLoop, scene, rotation, frame, image_index, calls, signaled_fences,
                   unsignaled_fences, wait_semaphores, signal_semaphores,
                   command_buffers, entityMaps, acquires, presentQ,
                   nullFenceUse>>

\* start_recording, record_drawing for every entity, finish_recording.  A
\* lookup of a missing map entry panics before finish_recording.
Record ==
    /\ pc = "record"
    /\ command_buffers' = [command_buffers EXCEPT ![image_index] =
          [state |-> IF Drawable = nEntities THEN "executable" ELSE "recording",
           draws |-> RecordedDraws]]
    /\ steps' = Append(steps, [op |-> "record", command_buffer |-> image_index])
    /\ pc' = IF Drawable = nEntities THEN After("record") ELSE "panicked"
    /\ UNCHANGED <<outsideFrameLoop, scene, rotation, frame, image_index, calls, signaled_fences,
                   unsignaled_fences, wait_semaphores, signal_semaphores,
                   uniform_buffers, entityMaps, submissions, acquires,
                   presentQ, nullFenceUse>>

\* self.signaled_fences[self.frame].reset(); self.graphics_queue.submit(...)
Submit ==
    /\ pc = "submit"
    /\ LET info == SubmitInfo(frame, image_index)
           f == FrameFence(frame)
       IN /\ signaled_fences' = [signaled_fences EXCEPT ![f] = Fence_reset(@)]
          /\ nullFenceUse' = (nullFenceUse \/ Fence_is_null(signaled_fences[f]))
          /\ submissions' = [submissions EXCEPT ![frame] =
                [state |-> "pending", call |-> calls,
                 command_buffer |-> info.command_buffer,
                 wait_semaphore |-> info.wait_semaphore,
                 signal_semaphore |-> info.signal_semaphore,
                 fence |-> f,
                 reads |-> ReadsOf(command_buffers[info.command_buffer].draws),
                 clobbered |-> FALSE]]
          /\ steps' = steps \o
                <<[op |-> "reset_fence", fence |-> <<"signaled_fences", f>>],
                  [op |-> "submit", info |-> info,
                   fence |-> <<"signaled_fences", f>>]>>
    /\ pc' = After("submit")
    /\ UNCHANGED <<outsideFrameLoop, scene, rotation, frame, image_index, calls,
                   unsignaled_fences, wait_semaphores, signal_semaphores,
                   command_buffers, uniform_buffers, entityMaps, acquires,
                   presentQ>>

\* self.present_queue.present(present_info)
Present ==
    /\ pc = "present"
    /\ LET info == PresentInfo(frame, image_index)
       IN /\ presentQ' = Append(presentQ,
                [wait_semaphore |-> info.wait_semaphore,
                 image_index |-> info.image_index, call |-> calls])
          /\ steps' = Append(steps, [op |-> "present", info |-> info])
    /\ pc' = After("present")
    /\ UNCHANGED <<outsideFrameLoop, scene, rotation, frame, image_index, calls, signaled_fences,
                   unsignaled_fences, wait_semaphores, signal_semaphores,
                   command_buffers, uniform_buffers, entityMaps, submissions,
                   acquires, nullFenceUse>>

\* self.frame = (self.frame + 1) % MAX_FLIGHT_FRAMES_COUNT; draw_frame returns.
Advance ==
    /\ pc = "advance"
    /\ frame' = NextFrame(frame)
    /\ calls' = calls + 1
    /\ image_index' = NoImage
    /\ steps' = Append(steps, [op |-> "advance"])
    /\ pc' = After("advance")
    /\ UNCHANGED <<outsideFrameLoop, scene, rotation, signaled_fences, unsignaled_fences,
                   wait_semaphores, signal_semaphores, command_buffers,
                   uniform_buffers, entityMaps, submissions, acquires,
                   presentQ, nullFenceUse>>

\* -------------------------------------------- graphics queue and presentation
\* The presentation engine signals the semaphore of an acquire once every
\* present of that image requested before the acquire has been processed.
AcquireSignal(s) ==
    /\ acquires[s].image # NoImage
    /\ \A k \in 1 .. Len(presentQ) :
          ~(presentQ[k].image_index = acquires[s].image
            /\ presentQ[k].call < acquires[s].call)
    /\ \E n \in SignalOutcomes(wait_semaphores[s]) :
          wait_semaphores' = [wait_semaphores EXCEPT ![s] = n]
    /\ acquires' = [acquires EXCEPT ![s] = NoAcquire]
    /\ UNCHANGED <<outsideFrameLoop, scene, rotation, frame, pc, image_index, calls, steps,
                   signaled_fences, unsignaled_fences, signal_semaphores,
                   command_buffers, uniform_buffers, entityMaps, submissions,
                   presentQ, nullFenceUse>>

\* The graphics queue executes the batch of slot s: it waits on the batch's
\* wait semaphore, runs the command buffer, then signals the signal semaphore
\* and the fence.  Signal operations of a queue happen in submission order.
GpuExecute(s) ==
    LET b == submissions[s]
    IN /\ Pending(s)
       /\ wait_semaphores[b.wait_semaphore] > 0
       /\ \A t \in Slots : Pending(t) => submissions[t].call >= b.call
       /\ wait_semaphores' =
             [wait_semaphores EXCEPT ![b.wait_semaphore] = @ - 1]
       /\ \E n \in SignalOutcomes(signal_semaphores[b.signal_semaphore]) :
             signal_semaphores' =
                [signal_semaphores EXCEPT ![b.signal_semaphore] = n]
       /\ signaled_fences' =
             [signaled_fences EXCEPT ![b.fence] =
                 IF @.null THEN @ ELSE [@ EXCEPT !.signaled = TRUE]]
       /\ submissions' = [submissions EXCEPT ![s].state = "complete"]
       /\ UNCHANGED <<outsideFrameLoop, scene, rotation, frame, pc, image_index, calls, steps,
                      unsignaled_fences, command_buffers, uniform_buffers,
                      entityMaps, acquires, presentQ, nullFenceUse>>

\* The present queue processes its oldest request once the semaphore the
\* request waits on is signaled, and consumes the signal.
PresentExecute ==
    /\ presentQ # <<>>
    /\ signal_semaphores[Head(presentQ).wait_semaphore] > 0
    /\ signal_semaphores' =
          [signal_semaphores EXCEPT ![Head(presentQ).wait_semaphore] = @ - 1]
    /\ presentQ' = Tail(presentQ)
    /\ UNCHANGED <<outsideFrameLoop, scene, rotation, frame, pc, image_index, calls, steps,
                   signaled_fences, unsignaled_fences, wait_semaphores,
                   command_buffers, uniform_buffers, entityMaps, submissions,
                   acquires, nullFenceUse>>

\* ------------------------------------------------------------ specification
DrawFrameStep ==
    \/ WaitFence
    \/ AcquireImage
    \/ PriorFenceWait
    \/ ResetCommandBuffer
    \/ UpdateUniformBuffer
    \/ Record
    \/ Submit
    \/ Present
    \/ Advance

DeviceStep ==
    \/ \E s \in Slots : AcquireSignal(s)
    \/ \E s \in Slots : GpuExecute(s)
    \/ PresentExecute

Next ==
    \/ MainEventsCleared
    \/ DrawFrameStep
    \/ DeviceStep

Spec == Init /\ [][Next]_vars

\* The scheduling the liveness claims assume: the event loop polls, the CPU
\* thread runs, and the device processes whatever it is able to process.
LiveSpec ==
    /\ Spec
    /\ WF_vars(MainEventsCleared)
    /\ WF_vars(DrawFrameStep)
    /\ \A s \in Slots : WF_vars(AcquireSignal(s))
    /\ \A s \in Slots : WF_vars(GpuExecute(s))
    /\ WF_vars(PresentExecute)

\* ===================================================== objects of the device
\* A vkCreate* or vkAllocate* call: what is created, named like what is
\* destroyed.
Create(kind, owner, index, part) ==
    [kind |-> kind, object |-> <<owner, index, part>>]

\* Buffer::new: create_buffer, allocate_memory.
Buffer_new(owner, index) ==
    {Create("buffer", owner, index, "buffer"),
     Create("memory", owner, index, "memory")}

\* Image::new: create_image, allocate_memory, create_image_view.
Image_new(owner, index) ==
    {Create("image", owner, index, "image"),
     Create("memory", owner, index, "memory"),
     Create("image_view", owner, index, "view")}

\* CommandBuffer::new: allocate_command_buffers of one command buffer.
CommandBuffer_allocate(owner, index) ==
    Create("command_buffer", owner, index, "command_buffer")

\* What Renderer::new has created, and not destroyed, when it returns.  A
\* fence made with signaled = false is the null handle: nothing is created.
CreatedByNew ==
    {Create(x, x, 0, x) :
        x \in {"instance", "debug_messenger", "surface", "device", "swapchain",
               "render_pass", "command_pool", "descriptor_pool"}}
    \cup {Create("image_view", "swapchain", i, "view") : i \in Images}
    \cup UNION {Buffer_new("uniform_buffers", i) : i \in DOMAIN uniform_buffers}
    \cup UNION {Image_new("texture_images", e) : e \in DOMAIN texture_images}
    \cup {Create("sampler", "texture_samplers", e, "sampler") :
            e \in DOMAIN texture_samplers}
    \cup UNION {Buffer_new("vertex_buffers", e) : e \in DOMAIN vertex_buffers}
    \cup UNION {Buffer_new("index_buffers", e) : e \in DOMAIN index_buffers}
    \cup {Create("descriptor_set_layout", "descriptor_sets", e, "layout") :
            e \in DOMAIN descriptor_sets}
    \cup {Create("descriptor_set", "descriptor_sets", e, "descriptor_set") :
            e \in DOMAIN descriptor_sets}
    \cup {Create("pipeline", "pipeline", 0, "pipeline"),
          Create("pipeline_layout", "pipeline", 0, "layout")}
    \cup (IF color_image = "Some" THEN Image_new("color_image", 0) ELSE {})
    \cup Image_new("depth_image", 0)
    \cup {Create("framebuffer", "framebuffers", i, "framebuffer") : i \in Images}
    \cup {CommandBuffer_allocate("command_buffers", i) :
            i \in DOMAIN command_buffers}
    \cup {Create("semaphore", owner, f, "semaphore") :
            owner \in {"wait_semaphores", "signal_semaphores"}, f \in Slots}
    \cup {Create("fence", "signaled_fences", f, "fence") :
            f \in {g \in Slots : ~Fence_is_null(signaled_fences[g])}}
    \cup {Create("fence", "unsignaled_fences", f, "fence") :
            f \in {g \in Slots : ~Fence_is_null(unsignaled_fences[g])}}

\* Variant: destroying a pool frees nothing that was allocated from it.
FreedWith_Nothing(d) == {}

\* What a destroy call frees besides its own object: destroying a pool frees
\* what was allocated from it and has not been freed.
FreedWith(d) ==
    CASE d.kind = "command_pool" ->
            {c \in created : c.kind = "command_buffer"}
               \ {destroyed[k] : k \in 1 .. Len(destroyed)}
      [] d.kind = "descriptor_pool" ->
            {c \in created : c.kind = "descriptor_set"}
      [] OTHER -> {}

\* A vkDestroy* or vkFree* call: what is destroyed, named by the field of the
\* renderer that owns it, the index or entity id in that field, and the part.
Destroy(kind, owner, index, part) ==
    [kind |-> kind, object |-> <<owner, index, part>>]

\* iter().for_each(f) over a collection: the calls f makes on each
\* element, in the order of the elements (a map's values in key order).
RECURSIVE for_each(_)
for_each(calls_of) ==
    IF calls_of = <<>> THEN <<>>
    ELSE Head(calls_of) \o for_each(Tail(calls_of))

\* Sampler::destroy
Sampler_destroy(e) == <<Destroy("sampler", "texture_samplers", e, "sampler")>>

\* Image::destroy: destroy_image, free_memory, destroy_image_view.
Image_destroy(owner, index) ==
    <<Destroy("image", owner, index, "image"),
      Destroy("memory", owner, index, "memory"),
      Destroy("image_view", owner, index, "view")>>

\* DescriptorSet::destroy: destroy_descriptor_set_layout.
DescriptorSet_destroy(e) ==
    <<Destroy("descriptor_set_layout", "descriptor_sets", e, "layout")>>

\* Buffer::destroy: destroy_buffer, free_memory.
Buffer_destroy(owner, index) ==
    <<Destroy("buffer", owner, index, "buffer"),
      Destroy("memory", owner, index, "memory")>>

\* Fence::destroy: destroy_fence, of the null handle for a fence that was
\* created with signaled = false.
Fence_destroy(owner, fence, s) ==
    <<Destroy(IF Fence_is_null(fence) THEN "null_fence" ELSE "fence",
              owner, s, "fence")>>

\* Semaphore::destroy
Semaphore_destroy(owner, s) == <<Destroy("semaphore", owner, s, "semaphore")>>

\* Framebuffer::destroy
Framebuffer_destroy(i) ==
    <<Destroy("framebuffer", "framebuffers", i, "framebuffer")>>

\* Pipeline::destroy: destroy_pipeline, destroy_pipeline_layout.
Pipeline_destroy ==
    <<Destroy("pipeline", "pipeline", 0, "pipeline"),
      Destroy("pipeline_layout", "pipeline", 0, "layout")>>

\* Swapchain::destroy: destroy_swapchain_khr, then destroy_image_view for
\* every image view.
Swapchain_destroy ==
    <<Destroy("swapchain", "swapchain", 0, "swapchain")>>
       \o for_each([k \in 1 .. nImages |->
                     <<Destroy("image_view", "swapchain", k - 1, "view")>>])

\* ===================================================================== uploads
\* std::mem::size_of::<T>() of the element types that are uploaded: u8 texels,
\* u32 indices, and Vertex (two Vector3<f32> and one Vector2<f32>).
size_of(T) == CASE T = "u8" -> 1 [] T = "u32" -> 4 [] T = "Vertex" -> 32

\* The bytes of one element in memory.
BytesOf(T, v) == [k \in 1 .. size_of(T) |-> IF k = 1 THEN v ELSE 0]

\* The bytes of a slice, element after element.
RECURSIVE SliceBytes(_, _)
SliceBytes(T, elements) ==
    IF elements = <<>> THEN <<>>
    ELSE BytesOf(T, Head(elements)) \o SliceBytes(T, Tail(elements))

\* Memory that was allocated and never written.
Uninit(n) == [k \in 1 .. n |-> "uninit"]

\* Variant: the byte size of a slice is taken to be its element count.
Buffer_size_ElementCount(T, len) == len

\* Buffer::size: (size_of::<T>() * len) as u64.
Buffer_size(T, len) == size_of(T) * len

\* Buffer::from_staging_data: a TRANSFER_SRC buffer of size_of::<T>() *
\* values.len() bytes in HOST_VISIBLE | HOST_COHERENT memory.
Buffer_from_staging_data(T, elements) ==
    [state |-> "created",
     size |-> size_of(T) * Len(elements),
     usage |-> {"TRANSFER_SRC"},
     memory_properties |-> {"HOST_VISIBLE", "HOST_COHERENT"},
     memory |-> Uninit(size_of(T) * Len(elements)),
     mapped |-> -1,
     destroys |-> 0]

\* ptr::copy_nonoverlapping of `bytes` to the start of `memory`.
copy_memory(bytes, memory) ==
    [k \in 1 .. Len(memory) |-> IF k <= Len(bytes) THEN bytes[k] ELSE memory[k]]

\* vkCmdCopyBuffer with one region of `size` bytes at offset 0.
CopyRegion(src, dst, size) ==
    [k \in 1 .. Len(dst) |-> IF k <= size /\ k <= Len(src) THEN src[k] ELSE dst[k]]

\* a * b in u32 arithmetic, by 16-bit halves: whether the product passes
\* 2^32 - 1, and the product modulo 2^32.
u32_mul(a, b) ==
    LET ah == a \div (2 ^ 16)
        al == a % (2 ^ 16)
        bh == b \div (2 ^ 16)
        bl == b % (2 ^ 16)
        lo == al * bl
        mid == ah * bl + al * bh + (lo \div (2 ^ 16))
    IN [overflows |-> ah * bh > 0 \/ mid >= 2 ^ 16,
        value |-> (mid % (2 ^ 16)) * (2 ^ 16) + (lo % (2 ^ 16))]

\* self.extent.width * self.extent.height * 4, two u32 multiplications.
Image_size_product(ext) ==
    LET texels == u32_mul(ext.width, ext.height)
        bytes == u32_mul(texels.value, 4)
    IN [overflows |-> texels.overflows \/ bytes.overflows,
        value |-> bytes.value]

\* Image::size: (width * height * 4) as u64, where no multiplication panics.
Image_size(ext) == Image_size_product(ext).value

\* What a call of Image::size does: a multiplication that overflows panics
\* in a build with overflow checks and wraps in a build without.
Image_size_outcomes(ext) ==
    {[panicked |-> FALSE, size |-> Image_size(ext)]}
       \cup IF Image_size_product(ext).overflows
            THEN {[panicked |-> TRUE, size |-> 0]}
            ELSE {}

\* RgbaImage::as_raw: four bytes per texel, row after row.
Pixels(ext) == [k \in 1 .. (ext.width * ext.height * 4) |-> k % 256]

RECURSIVE FloorLog2(_)
FloorLog2(n) == IF n <= 1 THEN 0 ELSE 1 + FloorLog2(n \div 2)

Pow2(k) == 2 ^ k

Max(a, b) == IF a > b THEN a ELSE b

\* `n as f32` for a u32 below 2^30: the nearest value with a 24-bit
\* significand, ties to even.
F32(n) ==
    IF FloorLog2(n) < 24 THEN n
    ELSE LET unit == Pow2(FloorLog2(n) - 23)
             q == n \div unit
             r == n % unit
         IN IF 2 * r < unit THEN q * unit
            ELSE IF 2 * r > unit THEN (q + 1) * unit
            ELSE IF q % 2 = 0 THEN q * unit ELSE (q + 1) * unit

\* f32::log2(x).floor() as u32, for an x that is a power of two or so far
\* below the next one that the rounding of log2 cannot reach it.
Log2Floor(x) == FloorLog2(x)

\* Image::mip_levels:
\* (extent.width.max(extent.height) as f32).log2().floor() as u32 + 1
Image_mip_levels(ext) == Log2Floor(F32(Max(ext.width, ext.height))) + 1

\* Texture::create_image: an image of Image::mip_levels(extent) levels, every
\* level in the initial layout UNDEFINED.
Texture_create_image(ext) ==
    [l \in 0 .. (Image_mip_levels(ext) - 1) |->
        [layout |-> "UNDEFINED", data |-> "uninit"]]

\* ------------------------------------------------- commands fill records
Barrier(level, count, old, new) ==
    [op |-> "barrier", base_mip_level |-> level, level_count |-> count,
     old_layout |-> old, new_layout |-> new]

\* Buffer::copy_buffer's closure: cmd_copy_buffer of one region.
copy_buffer(size) == <<[op |-> "copy_buffer", size |-> size]>>

\* Image::transition_image_layout's closure: one barrier over all mip levels.
transition_image_layout(mip_levels, old, new) ==
    <<Barrier(0, mip_levels, old, new)>>

\* Image::copy_buffer_to_image's closure: the staging buffer into mip level 0,
\* which the command takes to be in TRANSFER_DST_OPTIMAL.
copy_buffer_to_image(ext) ==
    <<[op |-> "copy_buffer_to_image", mip_level |-> 0,
       layout |-> "TRANSFER_DST_OPTIMAL", image_extent |-> ext]>>

\* A u32 is kept as its upper 31 bits and its lowest bit, value 2 * half + bit,
\* so that the sides from 2^31 on are within reach: x > 1 is half >= 1 and
\* x / 2 is half.
u32(n) == [half |-> n \div 2, bit |-> n % 2]

\* `x as i32`: the same 32 bits read as two's complement.
as_i32(x) ==
    IF x.half < 2 ^ 30 THEN 2 * x.half + x.bit
    ELSE ((x.half - 2 ^ 30) * 2 + x.bit - 2 ^ 30) - 2 ^ 30

\* mipmap_width after k rounds of `if mipmap_width > 1 { mipmap_width /= 2 }`.
RECURSIVE Halved(_, _)
Halved(x, k) ==
    IF k = 0 THEN x ELSE Halved(IF x.half >= 1 THEN u32(x.half) ELSE x, k - 1)

\* `if mipmap_width > 1 { mipmap_width / 2 } else { 1 }`.
HalfOrOne(x) == IF x.half >= 1 THEN u32(x.half) ELSE u32(1)

\* The far corners of the blit into level mip_level: src_offsets[1] and
\* dst_offsets[1], the extent's sides being u32s.
BlitOffsets(mip_level, ext) ==
    LET mipmap_width == Halved(ext.width, mip_level - 1)
        mipmap_height == Halved(ext.height, mip_level - 1)
    IN [src |-> [width |-> as_i32(mipmap_width),
                 height |-> as_i32(mipmap_height)],
        dst |-> [width |-> as_i32(HalfOrOne(mipmap_width)),
                 height |-> as_i32(HalfOrOne(mipmap_height))]]

\* The same for an extent whose sides are below 2^31.
BlitOffsetsOf(mip_level, ext) ==
    BlitOffsets(mip_level, [width |-> u32(ext.width), height |-> u32(ext.height)])

\* Variant: the blit source is not transitioned to TRANSFER_SRC_OPTIMAL first.
MipLevelCommands_NoSrcBarrier(mip_level, ext) ==
    <<[op |-> "blit", filter |-> "LINEAR",
       src_level |-> mip_level - 1, src_layout |-> "TRANSFER_SRC_OPTIMAL",
       dst_level |-> mip_level, dst_layout |-> "TRANSFER_DST_OPTIMAL",
       src_extent |-> BlitOffsetsOf(mip_level, ext).src,
       dst_extent |-> BlitOffsetsOf(mip_level, ext).dst],
      Barrier(mip_level - 1, 1, "TRANSFER_SRC_OPTIMAL",
              "SHADER_READ_ONLY_OPTIMAL")>>

\* One round of create_mipmaps' loop: level mip_level - 1 to TRANSFER_SRC, the
\* blit into level mip_level, level mip_level - 1 to SHADER_READ_ONLY.
MipLevelCommands(mip_level, ext) ==
    <<Barrier(mip_level - 1, 1, "TRANSFER_DST_OPTIMAL", "TRANSFER_SRC_OPTIMAL"),
      [op |-> "blit", filter |-> "LINEAR",
       src_level |-> mip_level - 1, src_layout |-> "TRANSFER_SRC_OPTIMAL",
       dst_level |-> mip_level, dst_layout |-> "TRANSFER_DST_OPTIMAL",
       src_extent |-> BlitOffsetsOf(mip_level, ext).src,
       dst_extent |-> BlitOffsetsOf(mip_level, ext).dst],
      Barrier(mip_level - 1, 1, "TRANSFER_SRC_OPTIMAL",
              "SHADER_READ_ONLY_OPTIMAL")>>

RECURSIVE MipLoop(_, _, _)
MipLoop(mip_level, mip_levels, ext) ==
    IF mip_level >= mip_levels THEN <<>>
    ELSE MipLevelCommands(mip_level, ext)
            \o MipLoop(mip_level + 1, mip_levels, ext)

\* Variant: the last level is left in TRANSFER_DST_OPTIMAL.
create_mipmaps_NoFinalBarrier(mip_levels, ext) == MipLoop(1, mip_levels, ext)

\* Image::create_mipmaps' closure: the loop over 1..mip_levels, then the last
\* level to SHADER_READ_ONLY.
create_mipmaps(mip_levels, ext) ==
    MipLoop(1, mip_levels, ext)
       \o <<Barrier(mip_levels - 1, 1, "TRANSFER_DST_OPTIMAL",
                    "SHADER_READ_ONLY_OPTIMAL")>>

\* The calls of fill that go through CommandExecutor::execute.
Jobs == {"copy_buffer", "transition_image_layout", "copy_buffer_to_image",
         "create_mipmaps"}

\* Variant: the staging buffer is destroyed before the copy is submitted.
AfterFill_DestroyFirst(target, step) ==
    CASE step = "staging" -> "map"
      [] step = "map" -> "copy"
      [] step = "copy" -> "unmap"
      [] step = "unmap" -> "destroy"
      [] step = "destroy" ->
            IF target = "Buffer" THEN "copy_buffer"
            ELSE "transition_image_layout"
      [] step = "copy_buffer" -> "done"
      [] step = "transition_image_layout" -> "copy_buffer_to_image"
      [] step = "copy_buffer_to_image" -> "format_properties"
      [] step = "format_properties" -> "create_mipmaps"
      [] step = "create_mipmaps" -> "done"

\* The order of the statements of Buffer::fill, and of Image::fill with
\* Image::optimize: the step that follows `step`.
AfterFill(target, step) ==
    CASE step = "staging" -> "map"
      [] step = "map" -> "copy"
      [] step = "copy" -> "unmap"
      [] step = "unmap" ->
            IF target = "Buffer" THEN "copy_buffer"
            ELSE "transition_image_layout"
      [] step = "copy_buffer" -> "destroy"
      [] step = "transition_image_layout" -> "copy_buffer_to_image"
      [] step = "copy_buffer_to_image" -> "format_properties"
      [] step = "format_properties" -> "create_mipmaps"
      [] step = "create_mipmaps" -> "destroy"
      [] step = "destroy" -> "done"

\* The size fill maps: Buffer::size(values.len()) or Image::size().
MappedSize ==
    IF fill_target = "Buffer"
    THEN Buffer_size(values.T, Len(values.elements))
    ELSE Image_size(extent)

\* Image.mip_levels of the image being filled.
ImageMipLevels == Cardinality(DOMAIN image_levels)

\* The commands the closure of the running job records.
JobCommands(job) ==
    CASE job = "copy_buffer" ->
            copy_buffer(Buffer_size(values.T, Len(values.elements)))
      [] job = "transition_image_layout" ->
            transition_image_layout(ImageMipLevels, "UNDEFINED",
                                    "TRANSFER_DST_OPTIMAL")
      [] job = "copy_buffer_to_image" -> copy_buffer_to_image(extent)
      [] job = "create_mipmaps" -> create_mipmaps(ImageMipLevels, extent)

\* Values an uploaded element may have.
ElementValues == 1 .. 2

\* The vertex and index arrays of a model.
Arrays == UNION {[1 .. n -> ElementValues] : n \in 0 .. MaxLen}

\* Buffer::from_indices and Buffer::from_vertices have created the DEVICE_LOCAL
\* buffer and call fill; Renderer::new has created a texture image and calls
\* fill with the decoded texture.
Fill_called ==
    /\ \/ /\ fill_target = "Buffer"
          /\ values \in [T : {"u32", "Vertex"}, elements : Arrays]
          /\ extent = [width |-> 0, height |-> 0]
          /\ dst_buffer = Uninit(size_of(values.T) * Len(values.elements))
          /\ image_levels = <<>>
          /\ linear_filter = TRUE
       \/ /\ fill_target = "Image"
          /\ extent \in [width : 1 .. MaxExtent, height : 1 .. MaxExtent]
          /\ values = [T |-> "u8", elements |-> Pixels(extent)]
          /\ dst_buffer = <<>>
          /\ image_levels = Texture_create_image(extent)
          /\ linear_filter \in BOOLEAN
    /\ fill_pc = "staging"
    /\ staging_buffer = NoBuffer
    /\ command_buffer = [state |-> "none", commands |-> <<>>]
    /\ exec_pc = "none"
    /\ fill_log = <<>>
    /\ errors = <<>>

\* One upload on its own: what the renderer holds is left out, and of the
\* objects only those the upload creates are followed.
UploadInit ==
    /\ NoRenderer
    /\ NoSelection
    /\ NoDrop
    /\ queue = <<>>
    /\ Fill_called

\* fill goes on with `step`; a step that is a job enters execute.
Goto(step) ==
    /\ fill_pc' = step
    /\ exec_pc' = IF step \in Jobs THEN "new" ELSE "none"

\* A call given a size of 0 is invalid usage: it fails, and unwrap panics, or
\* it goes through.
CallSucceeds(size) == IF size = 0 THEN BOOLEAN ELSE {TRUE}

notUpload == <<frameLoop, selection, teardown>>

\* What an upload step that creates or destroys an object leaves alone.
notObjects == <<frameLoop, selection, color_image, drop_pc>>

\* The one-shot command buffers execute has allocated.
Allocated == {c \in created : c.object[1] = "execute"}

\* let staging_buffer = Buffer::from_staging_data(values, ...)
Fill_staging ==
    /\ fill_pc = "staging"
    /\ LET b == Buffer_from_staging_data(values.T, values.elements)
       IN \E ok \in CallSucceeds(b.size) :
             IF ok
             THEN /\ staging_buffer' = b
                  /\ created' = created \cup Buffer_new("staging_buffer", 0)
                  /\ fill_log' = Append(fill_log,
                        [op |-> "create_staging", size |-> b.size])
                  /\ Goto(AfterFill(fill_target, "staging"))
             ELSE /\ fill_pc' = "panicked"
                  /\ UNCHANGED <<staging_buffer, created, fill_log, exec_pc>>
    /\ UNCHANGED <<notObjects, destroyed, queue, given, errors, dst_buffer,
                   image_levels, command_buffer>>

\* map_memory(staging_buffer.memory, 0, size, ...).unwrap()
Fill_map ==
    /\ fill_pc = "map"
    /\ \E ok \in CallSucceeds(MappedSize) :
          IF ok
          THEN /\ staging_buffer' = [staging_buffer EXCEPT !.mapped = MappedSize]
               /\ fill_log' = Append(fill_log,
                     [op |-> "map", size |-> MappedSize])
               /\ Goto(AfterFill(fill_target, "map"))
          ELSE /\ fill_pc' = "panicked"
               /\ UNCHANGED <<staging_buffer, fill_log, exec_pc>>
    /\ UNCHANGED <<notUpload, queue, given, errors, dst_buffer, image_levels,
                   command_buffer>>

\* copy_memory(values.as_ptr(), mapped_memory.cast(), values.len())
Fill_copy ==
    /\ fill_pc = "copy"
    /\ LET bytes == SliceBytes(values.T, values.elements)
       IN /\ staging_buffer' =
                [staging_buffer EXCEPT !.memory = copy_memory(bytes, @)]
          /\ fill_log' = Append(fill_log,
                [op |-> "copy", size |-> Len(bytes)])
    /\ Goto(AfterFill(fill_target, "copy"))
    /\ UNCHANGED <<notUpload, queue, given, errors, dst_buffer, image_levels,
                   command_buffer>>

\* unmap_memory(staging_buffer.memory)
Fill_unmap ==
    /\ fill_pc = "unmap"
    /\ staging_buffer' = [staging_buffer EXCEPT !.mapped = -1]
    /\ fill_log' = Append(fill_log, [op |-> "unmap"])
    /\ Goto(AfterFill(fill_target, "unmap"))
    /\ UNCHANGED <<notUpload, queue, given, errors, dst_buffer, image_levels,
                   command_buffer>>

\* staging_buffer.destroy(): destroy_buffer, free_memory.
Fill_destroy ==
    /\ fill_pc = "destroy"
    /\ staging_buffer' =
          [staging_buffer EXCEPT !.state = "destroyed",
                                 !.destroys = @ + 1,
                                 !.memory = [k \in DOMAIN @ |-> "freed"]]
    /\ destroyed' = destroyed \o Buffer_destroy("staging_buffer", 0)
    /\ fill_log' = Append(fill_log, [op |-> "destroy_staging"])
    /\ Goto(AfterFill(fill_target, "destroy"))
    /\ UNCHANGED <<notObjects, created, queue, given, errors, dst_buffer,
                   image_levels, command_buffer>>

\* Variant: create_mipmaps returns after the error message when the format
\* cannot be filtered linearly.
Fill_format_properties_Return ==
    /\ fill_pc = "format_properties"
    /\ errors' =
          IF linear_filter THEN errors
          ELSE Append(errors,
                      "Physical device dont support optimal tiling with linear filtering")
    /\ Goto(IF linear_filter THEN "create_mipmaps" ELSE "destroy")
    /\ UNCHANGED <<notUpload, queue, given, staging_buffer, dst_buffer,
                   image_levels, command_buffer, fill_log>>

\* Image::create_mipmaps before it calls execute: a device that does not
\* filter the format linearly is reported with error!, and nothing else.
Fill_format_properties ==
    /\ fill_pc = "format_properties"
    /\ errors' =
          IF linear_filter THEN errors
          ELSE Append(errors,
                      "Physical device dont support optimal tiling with linear filtering")
    /\ Goto(AfterFill(fill_target, "format_properties"))
    /\ UNCHANGED <<notUpload, queue, given, staging_buffer, dst_buffer,
                   image_levels, command_buffer, fill_log>>

\* ------------------------------------------------------- command_executor.rs
\* let command_buffer = CommandBuffer::new(device.clone(), command_pool)
Execute_new ==
    /\ exec_pc = "new"
    /\ command_buffer' = [state |-> "initial", commands |-> <<>>]
    /\ created' = created \cup
          {CommandBuffer_allocate("execute", Cardinality(Allocated))}
    /\ exec_pc' = "begin"
    /\ UNCHANGED <<notObjects, destroyed, queue, given, errors, fill_pc,
                   staging_buffer, dst_buffer, image_levels, fill_log>>

\* command_buffer.begin()
Execute_begin ==
    /\ exec_pc = "begin"
    /\ command_buffer' = [command_buffer EXCEPT !.state = "recording"]
    /\ exec_pc' = "command"
    /\ UNCHANGED <<notUpload, queue, given, errors, fill_pc, staging_buffer,
                   dst_buffer, image_levels, fill_log>>

\* command(command_buffer.clone())
Execute_command ==
    /\ exec_pc = "command"
    /\ command_buffer' =
          [command_buffer EXCEPT !.commands = @ \o JobCommands(fill_pc)]
    /\ exec_pc' = "end"
    /\ UNCHANGED <<notUpload, queue, given, errors, fill_pc, staging_buffer,
                   dst_buffer, image_levels, fill_log>>

\* command_buffer.end()
Execute_end ==
    /\ exec_pc = "end"
    /\ command_buffer' = [command_buffer EXCEPT !.state = "executable"]
    /\ exec_pc' = "submit"
    /\ UNCHANGED <<notUpload, queue, given, errors, fill_pc, staging_buffer,
                   dst_buffer, image_levels, fill_log>>

\* let fence = Fence::new(device, false); graphics_queue.submit(submit_info,
\* fence.clone())
Execute_submit ==
    /\ exec_pc = "submit"
    /\ queue' = queue \o command_buffer.commands
    /\ command_buffer' = [command_buffer EXCEPT !.state = "pending"]
    /\ fill_log' = Append(fill_log,
          [op |-> "submit", job |-> fill_pc, fence |-> Fence_new(FALSE),
           commands |-> command_buffer.commands])
    /\ exec_pc' = "wait_idle"
    /\ UNCHANGED <<notUpload, given, errors, fill_pc, staging_buffer,
                   dst_buffer, image_levels>>

\* Variant: Queue::wait_idle returns whatever the queue still holds.
Queue_wait_idle_returns_AtOnce(q) == TRUE

\* Queue::wait_idle returns once the queue has executed all it was given.
Queue_wait_idle_returns(q) == q = <<>>

\* graphics_queue.wait_idle()
Execute_wait_idle ==
    /\ exec_pc = "wait_idle"
    /\ Queue_wait_idle_returns(queue)
    /\ fill_log' = Append(fill_log, [op |-> "wait_idle", job |-> fill_pc])
    /\ exec_pc' = "destroy_fence"
    /\ UNCHANGED <<notUpload, queue, given, errors, fill_pc, staging_buffer,
                   dst_buffer, image_levels, command_buffer>>

\* fence.destroy(): destroy_fence of the null handle.
Execute_destroy_fence ==
    /\ exec_pc = "destroy_fence"
    /\ destroyed' = destroyed \o
          Fence_destroy("execute", Fence_new(FALSE), Cardinality(Allocated) - 1)
    /\ exec_pc' = "destroy"
    /\ UNCHANGED <<notObjects, created, queue, given, errors, fill_pc,
                   staging_buffer, dst_buffer, image_levels, command_buffer,
                   fill_log>>

\* command_buffer.destroy(); execute returns and fill goes on.
Execute_destroy ==
    /\ exec_pc = "destroy"
    /\ command_buffer' = [command_buffer EXCEPT !.state = "freed"]
    /\ destroyed' = Append(destroyed,
          Destroy("command_buffer", "execute", Cardinality(Allocated) - 1,
                  "command_buffer"))
    /\ Goto(AfterFill(fill_target, fill_pc))
    /\ UNCHANGED <<notObjects, created, queue, given, errors, staging_buffer,
                   dst_buffer, image_levels, fill_log>>

\* ---------------------------------------------------------- graphics queue
\* The mip levels a barrier covers.
BarrierLevels(c) == c.base_mip_level .. (c.base_mip_level + c.level_count - 1)

\* The effect of an executed command on the image.  An access in a layout the
\* level is not in, and a transition from a layout the level is not in, leave
\* the level's contents undefined.
ImageEffect(c, levels) ==
    CASE c.op = "barrier" ->
            [l \in DOMAIN levels |->
                IF l \in BarrierLevels(c)
                THEN [layout |-> c.new_layout,
                      data |-> IF levels[l].layout = c.old_layout
                               THEN levels[l].data ELSE "undefined"]
                ELSE levels[l]]
      [] c.op = "copy_buffer_to_image" ->
            [levels EXCEPT ![c.mip_level].data =
                IF levels[c.mip_level].layout = c.layout
                   /\ staging_buffer.state = "created"
                THEN "texels" ELSE "undefined"]
      [] c.op = "blit" ->
            [levels EXCEPT ![c.dst_level].data =
                IF /\ levels[c.src_level].layout = c.src_layout
                   /\ levels[c.dst_level].layout = c.dst_layout
                   /\ levels[c.src_level].data \in {"texels", "mip"}
                   /\ c.filter = "LINEAR" => linear_filter
                THEN "mip" ELSE "undefined"]
      [] OTHER -> levels

\* The graphics queue executes the oldest command it was given.
QueueExecute ==
    /\ queue # <<>>
    /\ queue' = Tail(queue)
    /\ dst_buffer' =
          IF Head(queue).op = "copy_buffer"
          THEN CopyRegion(staging_buffer.memory, dst_buffer, Head(queue).size)
          ELSE dst_buffer
    /\ image_levels' = ImageEffect(Head(queue), image_levels)
    /\ command_buffer' =
          IF Tail(queue) = <<>> /\ command_buffer.state = "pending"
          THEN [command_buffer EXCEPT !.state = "invalid"]
          ELSE command_buffer
    /\ UNCHANGED <<notUpload, given, errors, fill_pc, staging_buffer, exec_pc,
                   fill_log>>

UploadNext ==
    \/ Fill_staging
    \/ Fill_map
    \/ Fill_copy
    \/ Fill_unmap
    \/ Execute_new
    \/ Execute_begin
    \/ Execute_command
    \/ Execute_end
    \/ Execute_submit
    \/ Execute_wait_idle
    \/ Execute_destroy_fence
    \/ Execute_destroy
    \/ Fill_format_properties
    \/ Fill_destroy
    \/ QueueExecute

UploadSpec == UploadInit /\ [][UploadNext]_vars

\* ============================================================== selections
\* Iterator::find(..).unwrap_or(default) over a Vec: the first element that
\* satisfies the predicate, or the default.
\* `hits` are the positions of the elements that satisfy it.
FindOr(list, hits, default) ==
    IF hits = {} THEN default
    ELSE list[CHOOSE k \in hits : \A j \in hits : k <= j]

SurfaceFormatKHR(f, c) == [format |-> f, color_space |-> c]

\* Variant: the color space of a format is not looked at.
IsPreferredFormat_AnyColorSpace(f) == f.format = "B8G8R8A8_SRGB"

\* The closure of Swapchain::format's find.
IsPreferredFormat(f) ==
    f.format = "B8G8R8A8_SRGB" /\ f.color_space = "SRGB_NONLINEAR"

\* Swapchain::format on the formats the surface reports.
Swapchain_format(available_formats) ==
    FindOr(available_formats,
           {k \in DOMAIN available_formats :
              IsPreferredFormat(available_formats[k])},
           SurfaceFormatKHR("B8G8R8A8_UNORM", "SRGB_NONLINEAR"))

\* Variant: FIFO is looked for, with mailbox as the fallback.
IsPreferredPresentMode_Fifo(m) == m = "FIFO"

\* The closure of create_swapchain's find.
IsPreferredPresentMode(m) == m = "MAILBOX"

\* The present mode Swapchain::create_swapchain gives the swapchain.
present_mode(available_present_modes) ==
    FindOr(available_present_modes,
           {k \in DOMAIN available_present_modes :
              IsPreferredPresentMode(available_present_modes[k])},
           "FIFO")

\* Surface formats a surface may report.
SurfaceFormats ==
    {SurfaceFormatKHR(f, c) :
        f \in {"B8G8R8A8_SRGB", "B8G8R8A8_UNORM", "R8G8B8A8_SRGB"},
        c \in {"SRGB_NONLINEAR", "DISPLAY_P3_NONLINEAR_EXT"}}

PresentModes == {"IMMEDIATE", "MAILBOX", "FIFO", "FIFO_RELAXED"}

ListsOf(S) == UNION {[1 .. n -> S] : n \in 0 .. MaxListLen}

\* --------------------------------------------------------------- memory.rs
\* The memory_property_flags a constructor of Buffer asks for.
Buffer_memory_property_flags(constructor) ==
    CASE constructor = "from_staging_data" -> {"HOST_VISIBLE", "HOST_COHERENT"}
      [] constructor = "from_uniform_data" -> {"HOST_COHERENT", "HOST_VISIBLE"}
      [] constructor \in {"from_vertices", "from_indices"} -> {"DEVICE_LOCAL"}

\* Variant: a memory type suits when it has one of the requested flags.
MemoryPropertyFlags_contains_Any(property_flags, requested) ==
    property_flags \cap requested # {}

\* MemoryPropertyFlags::contains: every requested flag is set.
MemoryPropertyFlags_contains(property_flags, requested) ==
    requested \subseteq property_flags

\* (memory_type_bits & (1 << i)) != 0
BitSet(memory_type_bits, i) == (memory_type_bits \div (2 ^ i)) % 2 = 1

\* Memory::type_index: find over 0..memory_type_count, then unwrap, which
\* panics when find has found nothing.
Memory_type_index(memory_types, requested, memory_type_bits) ==
    LET hits == {i \in 0 .. (Len(memory_types) - 1) :
                   /\ MemoryPropertyFlags_contains(memory_types[i + 1], requested)
                   /\ BitSet(memory_type_bits, i)}
    IN IF hits = {} THEN [panicked |-> TRUE]
       ELSE [panicked |-> FALSE,
             index |-> CHOOSE i \in hits : \A j \in hits : i <= j]

\* Property flags a memory type of a device may have.
MemoryTypes ==
    {{}, {"DEVICE_LOCAL"}, {"HOST_VISIBLE"}, {"HOST_VISIBLE", "HOST_COHERENT"},
     {"DEVICE_LOCAL", "HOST_VISIBLE", "HOST_COHERENT"}}

\* ------------------------------------------- renderer.rs texture_samplers
\* Sampler::new: max_lod(mip_levels as f32).
Sampler_new(mip_levels) == [max_lod |-> mip_levels]

\* The texture_samplers of Renderer::new.  The k-th entity of
\* entities_with_names.values() has id k and a texture of extent extents[k];
\* texture_images.values() yields the image of entity order[k] in k-th place.
\* The zip pairs the k-th entity with the k-th image.
texture_samplers_of(extents, order) ==
    [k \in DOMAIN extents |->
        Sampler_new(Image_mip_levels(extents[order[k]]))]

\* The orders in which a hash map keyed by random ids may yield n values.
IterationOrders(n) == Permutations(1 .. n)

\* Widths and heights of a texture: the small ones, the ones named by the
\* documentation, and a large one that `as f32` rounds.  Between 2^21 - 1 and
\* 2^25 - 2 the result for a side just below a power of two hangs on how the
\* platform's log2 rounds; no such side is drawn.
Sides == (1 .. MaxExtent) \cup {200, 256, 300, 33554431}

\* Widths and heights given to Image::size: the small ones and some whose
\* product is near 2^32.  No pair of them has a byte count, exact or wrapped,
\* between 2^31 and 2^32 - 1.
SizeSides == (1 .. MaxExtent) \cup {300, 4096, 32768}

\* Widths and heights given to create_mipmaps, as u32s: the small ones, one
\* that is not a power of two, the largest that `as i32` keeps, and two above it.
MipSides ==
    {u32(n) : n \in (1 .. MaxExtent) \cup {300}}
       \cup {[half |-> 2 ^ 30 - 1, bit |-> 1], [half |-> 2 ^ 30, bit |-> 0],
             [half |-> 2 ^ 30 + (2 ^ 30 - 1), bit |-> 1]}

\* floor(log2(max(width, height))) + 1 of an extent of u32s: the mip_levels an
\* image of that extent is to be created with.
FullMipLevels(ext) ==
    LET side == IF \/ ext.width.half > ext.height.half
                   \/ /\ ext.width.half = ext.height.half
                      /\ ext.width.bit > ext.height.bit
                THEN ext.width ELSE ext.height
    IN (IF side.half = 0 THEN 0 ELSE 1 + FloorLog2(side.half)) + 1

\* The arguments of a selection function of the setup.
SelectInit ==
    /\ NoRenderer
    /\ NoUpload
    /\ NoDrop
    /\ queue = <<>>
    /\ returned = <<>>
    /\ \/ /\ callee = "Swapchain::format"
          /\ argument \in ListsOf(SurfaceFormats)
       \/ /\ callee = "Swapchain::create_swapchain"
          /\ argument \in ListsOf(PresentModes)
       \/ /\ callee = "Image::mip_levels"
          /\ argument \in [width : Sides, height : Sides]
       \/ /\ callee = "Renderer::new"
          /\ \E n \in 1 .. MaxEntities :
                argument \in
                   [extents : [1 .. n -> [width : 1 .. MaxExtent,
                                          height : 1 .. MaxExtent]],
                    order : IterationOrders(n)]
       \/ /\ callee = "Image::size"
          /\ argument \in [width : SizeSides, height : SizeSides]
       \/ /\ callee = "Image::create_mipmaps"
          /\ \E ext \in [width : MipSides, height : MipSides] :
                argument = [extent |-> ext, mip_levels |-> FullMipLevels(ext)]
       \/ /\ callee = "Memory::type_index"
          /\ argument \in
                [constructor : {"from_staging_data", "from_vertices",
                                "from_indices"},
                 memory_types : ListsOf(MemoryTypes),
                 memory_type_bits : 0 .. (2 ^ MaxListLen - 1)]

notSelection == <<frameLoop, upload, queue, teardown>>

Call_Swapchain_format ==
    /\ callee = "Swapchain::format"
    /\ returned = <<>>
    /\ returned' = <<Swapchain_format(argument)>>
    /\ UNCHANGED <<notSelection, callee, argument>>

Call_present_mode ==
    /\ callee = "Swapchain::create_swapchain"
    /\ returned = <<>>
    /\ returned' = <<present_mode(argument)>>
    /\ UNCHANGED <<notSelection, callee, argument>>

Call_Image_mip_levels ==
    /\ callee = "Image::mip_levels"
    /\ returned = <<>>
    /\ returned' = <<Image_mip_levels(argument)>>
    /\ UNCHANGED <<notSelection, callee, argument>>

\* Buffer::create_memory under a constructor of Buffer.
Call_Memory_type_index ==
    /\ callee = "Memory::type_index"
    /\ returned = <<>>
    /\ returned' =
          <<Memory_type_index(argument.memory_types,
                              Buffer_memory_property_flags(argument.constructor),
                              argument.memory_type_bits)>>
    /\ UNCHANGED <<notSelection, callee, argument>>

\* let texture_samplers = ... .zip(texture_images.values()) ... .collect()
Call_texture_samplers ==
    /\ callee = "Renderer::new"
    /\ returned = <<>>
    /\ returned' = <<texture_samplers_of(argument.extents, argument.order)>>
    /\ UNCHANGED <<notSelection, callee, argument>>

\* self.size() in Image::fill
Call_Image_size ==
    /\ callee = "Image::size"
    /\ returned = <<>>
    /\ \E outcome \in Image_size_outcomes(argument) : returned' = <<outcome>>
    /\ UNCHANGED <<notSelection, callee, argument>>

\* The image_blit of every round of (1..mip_levels).for_each in create_mipmaps.
Call_create_mipmaps ==
    /\ callee = "Image::create_mipmaps"
    /\ returned = <<>>
    /\ returned' =
          <<[mip_level \in 1 .. (argument.mip_levels - 1) |->
                BlitOffsets(mip_level, argument.extent)]>>
    /\ UNCHANGED <<notSelection, callee, argument>>

SelectNext ==
    \/ Call_Swapchain_format
    \/ Call_present_mode
    \/ Call_Image_mip_levels
    \/ Call_Memory_type_index
    \/ Call_texture_samplers
    \/ Call_Image_size
    \/ Call_create_mipmaps

SelectSpec == SelectInit /\ [][SelectNext]_vars

\* ================================================================ teardown
\* The statements of drop after the device_wait_idle, in order.
DropSteps ==
    <<"texture_samplers", "texture_images", "depth_image", "descriptor_sets",
      "index_buffers", "vertex_buffers", "descriptor_pool", "uniform_buffers",
      "unsignaled_fences", "signaled_fences", "signal_semaphores",
      "wait_semaphores", "color_image", "command_pool", "framebuffers",
      "pipeline", "render_pass", "swapchain", "device", "surface",
      "debug_messenger", "instance">>

\* The statement that follows `step`.
AfterDrop(step) ==
    IF step = "wait_idle" THEN DropSteps[1]
    ELSE LET k == CHOOSE i \in 1 .. Len(DropSteps) : DropSteps[i] = step
         IN IF k = Len(DropSteps) THEN "done" ELSE DropSteps[k + 1]

Count(map) == Cardinality(DOMAIN map)

\* The destroy calls a statement of drop makes.
DestroyCalls(step) ==
    CASE step = "texture_samplers" ->
            for_each([e \in 1 .. Count(texture_samplers) |-> Sampler_destroy(e)])
      [] step = "texture_images" ->
            for_each([e \in 1 .. Count(texture_images) |->
                        Image_destroy("texture_images", e)])
      [] step = "depth_image" -> Image_destroy("depth_image", 0)
      [] step = "descriptor_sets" ->
            for_each([e \in 1 .. Count(descriptor_sets) |->
                        DescriptorSet_destroy(e)])
      [] step = "index_buffers" ->
            for_each([e \in 1 .. Count(index_buffers) |->
                        Buffer_destroy("index_buffers", e)])
      [] step = "vertex_buffers" ->
            for_each([e \in 1 .. Count(vertex_buffers) |->
                        Buffer_destroy("vertex_buffers", e)])
      [] step = "descriptor_pool" ->
            <<Destroy("descriptor_pool", "descriptor_pool", 0, "descriptor_pool")>>
      [] step = "uniform_buffers" ->
            for_each([k \in 1 .. Count(uniform_buffers) |->
                        Buffer_destroy("uniform_buffers", k - 1)])
      [] step = "unsignaled_fences" ->
            for_each([k \in 1 .. MAX_FLIGHT_FRAMES_COUNT |->
                        Fence_destroy("unsignaled_fences",
                                      unsignaled_fences[k - 1], k - 1)])
      [] step = "signaled_fences" ->
            for_each([k \in 1 .. MAX_FLIGHT_FRAMES_COUNT |->
                        Fence_destroy("signaled_fences",
                                      signaled_fences[k - 1], k - 1)])
      [] step = "signal_semaphores" ->
            for_each([k \in 1 .. MAX_FLIGHT_FRAMES_COUNT |->
                        Semaphore_destroy("signal_semaphores", k - 1)])
      [] step = "wait_semaphores" ->
            for_each([k \in 1 .. MAX_FLIGHT_FRAMES_COUNT |->
                        Semaphore_destroy("wait_semaphores", k - 1)])
      [] step = "color_image" ->
            IF color_image = "Some" THEN Image_destroy("color_image", 0)
            ELSE <<>>
      [] step = "command_pool" ->
            <<Destroy("command_pool", "command_pool", 0, "command_pool")>>
      [] step = "framebuffers" ->
            for_each([k \in 1 .. nImages |-> Framebuffer_destroy(k - 1)])
      [] step = "pipeline" -> Pipeline_destroy
      [] step = "render_pass" ->
            <<Destroy("render_pass", "render_pass", 0, "render_pass")>>
      [] step = "swapchain" -> Swapchain_destroy
      [] step = "device" -> <<Destroy("device", "device", 0, "device")>>
      [] step = "surface" -> <<Destroy("surface", "surface", 0, "surface")>>
      [] step = "debug_messenger" ->
            <<Destroy("debug_messenger", "debug_messenger", 0,
                      "debug_messenger")>>
      [] step = "instance" -> <<Destroy("instance", "instance", 0, "instance")>>

\* Batches of the frame loop the graphics queue has not finished when the
\* renderer is dropped.
PendingBatches ==
    {[k \in 1 .. n |-> [op |-> "batch"]] : n \in 0 .. MAX_FLIGHT_FRAMES_COUNT}

\* The renderer is dropped: with or without a multisampled color image, with
\* any of its frames still in flight.
DropInit ==
    /\ Renderer_new
    /\ NoUpload
    /\ NoSelection
    /\ queue \in PendingBatches
    /\ color_image \in {"None", "Some"}
    /\ drop_pc = "wait_idle"
    /\ created = CreatedByNew
    /\ destroyed = <<>>

\* Variant: device_wait_idle returns without waiting.
Device_wait_idle_returns_AtOnce(q) == TRUE

\* device_wait_idle returns once every queue of the device is idle.
Device_wait_idle_returns(q) == q = <<>>

\* vkDevice::from(self.device.clone()).device_wait_idle().unwrap()
Drop_wait_idle ==
    /\ drop_pc = "wait_idle"
    /\ Device_wait_idle_returns(queue)
    /\ drop_pc' = AfterDrop("wait_idle")
    /\ UNCHANGED <<frameLoop, upload, queue, selection, color_image, created,
                   destroyed>>

\* One statement of drop after the wait: its destroy calls, in order.
Drop_destroy(step) ==
    /\ drop_pc = step
    /\ destroyed' = destroyed \o DestroyCalls(step)
    /\ drop_pc' = AfterDrop(step)
    /\ UNCHANGED <<frameLoop, upload, queue, selection, color_image, created>>

DropNext ==
    \/ Drop_wait_idle
    \/ \E k \in 1 .. Len(DropSteps) : Drop_destroy(DropSteps[k])
    \/ QueueExecute

DropSpec == DropInit /\ [][DropNext]_vars

\* ================================================== from setup to teardown
\* An upload of Renderer::new, with the renderer as new returns it.
LifeInit ==
    /\ Renderer_new
    /\ NoSelection
    /\ queue = <<>>
    /\ Fill_called
    /\ color_image \in {"None", "Some"}
    /\ drop_pc = "none"
    /\ created = CreatedByNew
    /\ destroyed = <<>>

\* WindowEvent::CloseRequested: new has returned, frames have been drawn, the
\* event loop exits and drops the closure that owns the renderer, with any of
\* its frames still in flight.
CloseRequested ==
    /\ fill_pc = "done"
    /\ drop_pc = "none"
    /\ drop_pc' = "wait_idle"
    /\ queue' \in PendingBatches
    /\ UNCHANGED <<frameLoop, upload, selection, color_image, created,
                   destroyed>>

LifeNext ==
    \/ UploadNext
    \/ CloseRequested
    \/ Drop_wait_idle
    \/ \E k \in 1 .. Len(DropSteps) : Drop_destroy(DropSteps[k])

LifeSpec == LifeInit /\ [][LifeNext]_vars

\* ------------------------------------------------------------------- claims
\* The current call has made the API call `op`.
Did(op) == \E k \in 1 .. Len(steps) : steps[k].op = op

StepOf(op) == steps[CHOOSE k \in 1 .. Len(steps) : steps[k].op = op]

\* C1: a command buffer is reset only when no batch that executes it is still
\* pending on the graphics queue, for every sequence of acquired image indices.
C1_ResetOnlyWhenNotPending ==
    [][ResetCommandBuffer =>
         \A s \in Slots :
            ~(Pending(s) /\ submissions[s].command_buffer = image_index)]_vars

\* C2: a uniform buffer is overwritten only when no pending batch reads it
\* through a descriptor set bound by one of its draws.
C2_UpdateOnlyWhenNotRead ==
    [][UpdateUniformBuffer =>
         \A s \in Slots : ~(Pending(s) /\ image_index \in submissions[s].reads)]_vars

\* C3: when the acquired image was rendered to by a batch submitted from the
\* other slot, draw_frame has waited on that batch's fence before it resets the
\* command buffer: at the reset that fence is signaled.
C3_PriorUseFenceWaited ==
    [][ResetCommandBuffer =>
         \A s \in Slots \ {frame} :
            (submissions[s].state # "none"
             /\ submissions[s].command_buffer = image_index)
            => signaled_fences[submissions[s].fence].signaled]_vars

\* C4: a semaphore is reused only when its previous use is finished: the wait
\* semaphore handed to acquire has no signal and no waiter outstanding, and no
\* semaphore is signaled while its previous signal has not been consumed.
C4_SemaphoresReusedWhenIdle ==
    [][/\ AcquireImage =>
            /\ wait_semaphores[AcquireSemaphore(frame)] = 0
            /\ acquires[AcquireSemaphore(frame)] = NoAcquire
            /\ \A s \in Slots :
                  ~(Pending(s)
                    /\ submissions[s].wait_semaphore = AcquireSemaphore(frame))
       /\ \A s \in Slots : AcquireSignal(s) => wait_semaphores[s] = 0
       /\ \A s \in Slots :
             GpuExecute(s) =>
                signal_semaphores[submissions[s].signal_semaphore] = 0]_vars

\* The place of an API call in the order the per-frame state machine states.
Rank(op) ==
    CASE op = "wait_fence" -> 1
      [] op = "acquire" -> 2
      [] op = "prior_fence_wait" -> 3
      [] op = "reset" -> 4
      [] op = "update" -> 5
      [] op = "record" -> 6
      [] op = "reset_fence" -> 7
      [] op = "submit" -> 8
      [] op = "present" -> 9
      [] op = "advance" -> 10

\* C5: the API calls of a draw_frame call happen in the stated order, starting
\* with the fence wait, none skipped but the conditional prior-use fence wait;
\* a call that has returned has made all of them.
C5_StepsInOrder ==
    /\ steps # <<>> => steps[1].op = "wait_fence"
    /\ \A k \in 2 .. Len(steps) :
          \/ Rank(steps[k].op) = Rank(steps[k - 1].op) + 1
          \/ steps[k - 1].op = "acquire" /\ steps[k].op = "reset"
    /\ (pc = "idle" /\ calls > 0) => steps[Len(steps)].op = "advance"
    /\ Did("present") => Did("submit")

C5_Witness == pc = "idle" /\ calls = 2 /\ Len(steps) = 9

\* C6: the submit waits at the color-attachment-output stage on the semaphore
\* given to the call's acquire and signals the slot's render-done semaphore and
\* frame-done fence; the present waits on that render-done semaphore and
\* presents the image index the acquire returned.
C6_SubmitPresentArguments ==
    /\ (pc \in {"present", "advance"}) =>
          /\ StepOf("submit").info.wait_semaphore = StepOf("acquire").semaphore
          /\ StepOf("submit").info.wait_stage = "COLOR_ATTACHMENT_OUTPUT"
          /\ StepOf("submit").info.command_buffer = StepOf("acquire").image_index
          /\ StepOf("submit").info.signal_semaphore = frame
          /\ StepOf("submit").fence = <<"signaled_fences", frame>>
          /\ StepOf("submit").fence = StepOf("wait_fence").fence
    /\ pc = "advance" =>
          /\ StepOf("present").info.wait_semaphore =
                StepOf("submit").info.signal_semaphore
          /\ StepOf("present").info.wait_semaphore = frame
          /\ StepOf("present").info.image_index = StepOf("acquire").image_index

C6_Witness == pc = "advance" /\ frame = 1 /\ image_index = 1

\* C7: if the graphics queue completes every batch it is given, the fence wait
\* that opens a draw_frame call returns, and the call ends.
C7_FenceWaitReturns ==
    (\A s \in Slots : []<>(~Pending(s)))
    => /\ (pc = "wait_fence") ~> (pc = "acquire")
       /\ (pc # "idle") ~> (pc \in {"idle", "panicked"})

C7_Witness == pc = "acquire" /\ calls = 2 /\ submissions[frame].state = "complete"

\* C8: the slot index stays in [0, N), equals the number of returned draw_frame
\* calls modulo N, and only the last step of draw_frame changes it.
C8_SlotIndex ==
    /\ [](frame \in Slots /\ frame = calls % MAX_FLIGHT_FRAMES_COUNT)
    /\ [][frame' # frame => Advance]_vars

C8_Witness == calls = 3 /\ frame = 1

\* C9: no fence wait and no fence reset is given a null handle: the fence of
\* the first wait and of the reset is never null, and the prior-use fence is
\* waited on only when it is not null.
C9_NoNullFenceUse ==
    /\ ~nullFenceUse
    /\ pc \in {"wait_fence", "submit"} =>
          ~Fence_is_null(signaled_fences[FrameFence(frame)])
    /\ Did("prior_fence_wait") => ~Fence_is_null(unsignaled_fences[frame])

C9_Witness ==
    /\ pc = "present"
    /\ calls = 1
    /\ Fence_is_null(unsignaled_fences[frame])
    /\ Did("reset_fence")

\* C10: once draw_frame has recorded a frame, that frame's command buffer holds
\* exactly one indexed draw per entity, each with that entity's vertex buffer,
\* index buffer, descriptor set and model matrix.
C10_OneDrawPerEntity ==
    Did("record") =>
       command_buffers[StepOf("acquire").image_index].draws =
          [e \in Entities |->
              [vertex_buffer |-> <<"vertex_buffer", e>>,
               index_buffer |-> <<"index_buffer", e>>,
               descriptor_set |-> <<"descriptor_set", e>>,
               model_matrix |-> transform_matrix(e, rotation)]]

\* C11: after Renderer::new every entity of the scene has exactly one vertex
\* buffer, index buffer, texture image, sampler and descriptor set under its
\* id, for every number of entities and swapchain images, and draw_frame
\* never looks up a missing entry.
C11_EntityMapsComplete ==
    /\ DOMAIN vertex_buffers = Entities
    /\ DOMAIN index_buffers = Entities
    /\ DOMAIN texture_images = Entities
    /\ DOMAIN texture_samplers = Entities
    /\ DOMAIN descriptor_sets = Entities
    /\ pc # "panicked"

\* C12: a step of draw_frame leaves the per-entity maps, the entity ids and
\* the swapchain image count unchanged; of the renderer's state it changes
\* only the slot index, the uniform buffer and the command buffer of the
\* acquired image, and the fence and semaphores of the current slot.  The
\* device's work changes no map and no buffer either.
C12_FrameEffect ==
    [][/\ DrawFrameStep =>
            /\ entityMaps' = entityMaps
            /\ scene' = scene
            /\ rotation' = rotation
            /\ unsignaled_fences' = unsignaled_fences
            /\ \A i \in Images \ {image_index} :
                  /\ uniform_buffers'[i] = uniform_buffers[i]
                  /\ command_buffers'[i] = command_buffers[i]
            /\ \A s \in Slots \ {frame} :
                  /\ signaled_fences'[s] = signaled_fences[s]
                  /\ wait_semaphores'[s] = wait_semaphores[s]
                  /\ signal_semaphores'[s] = signal_semaphores[s]
            /\ frame' # frame => Advance
       /\ DeviceStep =>
            /\ entityMaps' = entityMaps
            /\ scene' = scene
            /\ uniform_buffers' = uniform_buffers
            /\ command_buffers' = command_buffers]_vars

C12_Witness ==
    /\ pc = "idle"
    /\ calls = 2
    /\ nImages >= 2
    /\ uniform_buffers[0] = "ubo"
    /\ uniform_buffers[1] = "uninit"
    /\ command_buffers[0].state = "executable"
    /\ DOMAIN descriptor_sets = Entities

\* The place of an API call in the upload protocol.
FillRank(op) ==
    CASE op = "create_staging" -> 1
      [] op = "map" -> 2
      [] op = "copy" -> 3
      [] op = "unmap" -> 4
      [] op = "submit" -> 5
      [] op = "wait_idle" -> 6
      [] op = "destroy_staging" -> 7

\* A command that reads the staging buffer.
ReadsStaging(c) == c.op \in {"copy_buffer", "copy_buffer_to_image"}

\* C13: Buffer::fill and Image::fill create a host-visible, host-coherent
\* staging buffer of the size of the data, map it, copy the data in, unmap it,
\* submit every copy and wait for the queue to be idle, and only then destroy
\* the staging buffer: once, and never while a command that reads it is
\* pending.
C13_UploadProtocol ==
    /\ [](/\ fill_log # <<>> => fill_log[1].op = "create_staging"
          /\ \A k \in 2 .. Len(fill_log) :
                \/ FillRank(fill_log[k].op) = FillRank(fill_log[k - 1].op) + 1
                \/ fill_log[k - 1].op = "wait_idle" /\ fill_log[k].op = "submit"
          /\ staging_buffer.state # "none" =>
                /\ staging_buffer.memory_properties =
                      {"HOST_VISIBLE", "HOST_COHERENT"}
                /\ staging_buffer.size =
                      Len(SliceBytes(values.T, values.elements))
          /\ staging_buffer.destroys <= 1
          /\ fill_pc = "done" =>
                /\ staging_buffer.destroys = 1
                /\ fill_log[Len(fill_log)].op = "destroy_staging"
                /\ \E k \in 1 .. Len(fill_log) :
                      /\ fill_log[k].op = "submit"
                      /\ \E i \in 1 .. Len(fill_log[k].commands) :
                            ReadsStaging(fill_log[k].commands[i]))
    /\ [][Fill_destroy =>
             \A k \in 1 .. Len(queue) : ~ReadsStaging(queue[k])]_vars

C13_Witness ==
    /\ fill_pc = "done"
    /\ fill_target = "Image"
    /\ ImageMipLevels = 3
    /\ staging_buffer.destroys = 1
    /\ Len(fill_log) = 11

\* C14: when Buffer::fill has returned, the destination buffer holds the bytes
\* of the source array, in order; the staging buffer's size, the mapped size,
\* the number of bytes copied into the staging buffer and the size of the
\* device copy all equal size_of::<T>() times the element count.
C14_BufferRoundTrip ==
    fill_target = "Buffer" =>
       /\ fill_pc = "done" => dst_buffer = SliceBytes(values.T, values.elements)
       /\ \A k \in 1 .. Len(fill_log) :
             /\ fill_log[k].op \in {"create_staging", "map", "copy"} =>
                   fill_log[k].size = size_of(values.T) * Len(values.elements)
             /\ fill_log[k].op = "submit" =>
                   /\ Len(fill_log[k].commands) = 1
                   /\ fill_log[k].commands[1].op = "copy_buffer"
                   /\ fill_log[k].commands[1].size =
                         size_of(values.T) * Len(values.elements)

C14_Witness ==
    /\ fill_target = "Buffer"
    /\ fill_pc = "done"
    /\ values.T = "Vertex"
    /\ values.elements = <<1, 2>>
    /\ Len(dst_buffer) = 64
    /\ dst_buffer[33] = 2

\* C15: every command of Image::fill finds the mip levels in the layout it
\* takes them to be in: a barrier's old layout is the layout of every level it
\* covers, the buffer-to-image copy writes level 0 in TRANSFER_DST_OPTIMAL
\* after the transition from UNDEFINED, and a blit reads a level that is in
\* TRANSFER_SRC_OPTIMAL and writes one that is in TRANSFER_DST_OPTIMAL.
C15_LayoutsAsAssumed ==
    [][QueueExecute =>
         LET c == Head(queue)
         IN /\ c.op = "barrier" =>
                  \A l \in BarrierLevels(c) :
                     /\ l \in DOMAIN image_levels
                     /\ image_levels[l].layout = c.old_layout
            /\ c.op = "copy_buffer_to_image" =>
                  /\ c.layout = "TRANSFER_DST_OPTIMAL"
                  /\ image_levels[c.mip_level].layout = "TRANSFER_DST_OPTIMAL"
                  /\ \E k \in 1 .. Len(fill_log) :
                        /\ fill_log[k].op = "wait_idle"
                        /\ fill_log[k].job = "transition_image_layout"
            /\ c.op = "blit" =>
                  /\ c.src_layout = "TRANSFER_SRC_OPTIMAL"
                  /\ c.dst_layout = "TRANSFER_DST_OPTIMAL"
                  /\ image_levels[c.src_level].layout = "TRANSFER_SRC_OPTIMAL"
                  /\ image_levels[c.dst_level].layout = "TRANSFER_DST_OPTIMAL"]_vars

C15_Witness ==
    /\ fill_target = "Image"
    /\ fill_pc = "done"
    /\ ImageMipLevels = 3
    /\ \A l \in DOMAIN image_levels :
          image_levels[l].layout = "SHADER_READ_ONLY_OPTIMAL"
    /\ image_levels[0].data = "texels"
    /\ image_levels[2].data = "mip"

\* The list holds the element.
Contains(list, x) == \E k \in 1 .. Len(list) : list[k] = x

\* C16: Image::mip_levels returns floor(log2(max(width, height))) + 1 for
\* every extent with width, height >= 1: 1 for 1x1, 9 for 256x256 and for
\* 300x200; the texture image is created with that many levels.
C16_MipLevelsFormula ==
    /\ (callee = "Image::mip_levels" /\ returned # <<>>) =>
          /\ returned[1] =
                FloorLog2(Max(argument.width, argument.height)) + 1
          /\ (argument.width = 1 /\ argument.height = 1) => returned[1] = 1
          /\ (argument.width = 256 /\ argument.height = 256) => returned[1] = 9
          /\ (argument.width = 300 /\ argument.height = 200) => returned[1] = 9
          /\ Cardinality(DOMAIN Texture_create_image(argument)) = returned[1]

\* C17: Swapchain::format chooses (B8G8R8A8_SRGB, SRGB_NONLINEAR) when the
\* list holds it, wherever it is, and (B8G8R8A8_UNORM, SRGB_NONLINEAR)
\* otherwise, also when the list does not hold that pair.
C17_SurfaceFormatChoice ==
    (callee = "Swapchain::format" /\ returned # <<>>) =>
       IF Contains(argument, SurfaceFormatKHR("B8G8R8A8_SRGB", "SRGB_NONLINEAR"))
       THEN returned[1] = SurfaceFormatKHR("B8G8R8A8_SRGB", "SRGB_NONLINEAR")
       ELSE returned[1] = SurfaceFormatKHR("B8G8R8A8_UNORM", "SRGB_NONLINEAR")

C17_Witness ==
    /\ callee = "Swapchain::format"
    /\ Len(argument) = 3
    /\ argument[1] = SurfaceFormatKHR("B8G8R8A8_SRGB", "DISPLAY_P3_NONLINEAR_EXT")
    /\ argument[3] = SurfaceFormatKHR("B8G8R8A8_SRGB", "SRGB_NONLINEAR")
    /\ returned = <<argument[3]>>

\* C18: the present mode chosen for the swapchain is mailbox when the list of
\* available present modes holds it, and FIFO otherwise.
C18_PresentModeChoice ==
    (callee = "Swapchain::create_swapchain" /\ returned # <<>>) =>
       IF Contains(argument, "MAILBOX")
       THEN returned[1] = "MAILBOX"
       ELSE returned[1] = "FIFO"

C18_Witness ==
    /\ callee = "Swapchain::create_swapchain"
    /\ argument = <<"FIFO", "IMMEDIATE", "MAILBOX">>
    /\ returned = <<"MAILBOX">>

\* Every destroy call of `objects` was made before the k-th one.
AllBefore(objects, k) ==
    \A c \in objects : \E j \in 1 .. (k - 1) : destroyed[j] = c

\* What belongs to the instance, not to the logical device.
InstanceOwned == {"surface", "debug_messenger", "instance"}

\* C19: drop destroys nothing before device_wait_idle has returned with the
\* device idle; every texture sampler and texture image is destroyed before
\* any descriptor set, every descriptor set before the descriptor pool, the
\* pools before the logical device, and the device after everything that
\* belongs to it.
C19_TeardownOrder ==
    /\ destroyed # <<>> => (drop_pc # "wait_idle" /\ queue = <<>>)
    /\ \A k \in 1 .. Len(destroyed) :
          /\ destroyed[k].object[1] = "descriptor_sets" =>
                /\ AllBefore({Destroy("sampler", "texture_samplers", e, "sampler") :
                                e \in Entities}, k)
                /\ AllBefore({Destroy(part[1], "texture_images", e, part[2]) :
                                e \in Entities,
                                part \in {<<"image", "image">>,
                                          <<"memory", "memory">>,
                                          <<"image_view", "view">>}}, k)
          /\ destroyed[k].kind = "descriptor_pool" =>
                AllBefore({Destroy("descriptor_set_layout", "descriptor_sets",
                                   e, "layout") : e \in DOMAIN descriptor_sets}, k)
          /\ destroyed[k].kind = "device" =>
                /\ AllBefore({Destroy(pool, pool, 0, pool) :
                                pool \in {"descriptor_pool", "command_pool"}}, k)
                /\ \A j \in (1 .. Len(destroyed)) \ {k} :
                      j < k <=> destroyed[j].object[1] \notin InstanceOwned
    /\ drop_pc = "done" =>
          \E k \in 1 .. Len(destroyed) : destroyed[k].kind = "device"

C19_Witness ==
    /\ drop_pc = "done"
    /\ nEntities = 2
    /\ nImages = 2
    /\ color_image = "Some"
    /\ destroyed[Len(destroyed)].kind = "instance"

\* C20: in drop a resource is destroyed only after what depends on it: an
\* image after its view, an image view after the framebuffers it is attached
\* to, the swapchain after its image views, and memory after the buffer or
\* image bound to it.
C20_DependentsFirst ==
    \A k \in 1 .. Len(destroyed) :
       LET d == destroyed[k]
           owner == d.object[1]
           slot == d.object[2]
       IN /\ d.kind = "image" =>
                AllBefore({Destroy("image_view", owner, slot, "view")}, k)
          /\ d.kind = "image_view" =>
                AllBefore({Destroy("framebuffer", "framebuffers", i, "framebuffer") :
                             i \in IF owner = "swapchain" THEN {slot}
                                   ELSE IF owner = "texture_images" THEN {}
                                   ELSE Images}, k)
          /\ d.kind = "swapchain" =>
                AllBefore({Destroy("image_view", "swapchain", i, "view") :
                             i \in Images}, k)
          /\ d.kind = "memory" =>
                AllBefore({Destroy(IF owner \in {"texture_images", "depth_image",
                                                "color_image"}
                                   THEN "image" ELSE "buffer",
                                   owner, slot,
                                   IF owner \in {"texture_images", "depth_image",
                                                 "color_image"}
                                   THEN "image" ELSE "buffer")}, k)

\* The objects the k-th destroy call destroys or frees.
DestroyedBy(k) ==
    (IF destroyed[k].kind = "null_fence" THEN {} ELSE {destroyed[k]})
       \cup FreedWith(destroyed[k])

\* C21: from setup to the end of teardown no object is destroyed twice, only
\* objects that were created are destroyed, and when drop has returned every
\* object the renderer has created is destroyed: what Renderer::new holds,
\* the staging buffer and the one-shot command buffers of an upload, and the
\* layout of every descriptor set.
C21_DestroyedExactlyOnce ==
    /\ \A j, k \in 1 .. Len(destroyed) :
          j < k => DestroyedBy(j) \cap DestroyedBy(k) = {}
    /\ \A k \in 1 .. Len(destroyed) : DestroyedBy(k) \subseteq created
    /\ drop_pc = "done" =>
          \A c \in created : \E k \in 1 .. Len(destroyed) : c \in DestroyedBy(k)

C21_Witness ==
    /\ drop_pc = "done"
    /\ fill_target = "Image"
    /\ Cardinality(Allocated) = 3
    /\ nEntities = 2
    /\ nImages = 2
    /\ color_image = "Some"
    /\ Create("buffer", "staging_buffer", 0, "buffer") \in created

\* C22: no statement of draw_frame goes through the one-shot executor or waits
\* for a queue to be idle, the uploads' state is as setup left it while frames
\* are drawn, and the only statements of draw_frame that may block are the
\* fence waits and the image acquire: every other statement can always run.
C22_NoOneShotInDrawFrame ==
    /\ \A k \in 1 .. Len(steps) :
          /\ ApiCalls(steps[k].op) \cap
                {"allocate_command_buffers", "free_command_buffers",
                 "queue_wait_idle", "device_wait_idle"} = {}
          /\ ApiCalls(steps[k].op) \cap BlockingCalls # {} =>
                steps[k].op \in {"wait_fence", "prior_fence_wait", "acquire"}
    /\ exec_pc = "none" /\ fill_pc = "none" /\ queue = <<>>
    /\ pc \in {"reset", "update", "record", "submit", "present", "advance"} =>
          ENABLED DrawFrameStep

C22_Witness ==
    /\ pc = "idle"
    /\ calls = MaxFrames
    /\ {steps[k].op : k \in 1 .. Len(steps)} =
          {"wait_fence", "acquire", "reset", "update", "record", "reset_fence",
           "submit", "present", "advance"}

\* The position of a statement of CommandExecutor::execute in its body.
ExecRank(step) ==
    CASE step = "new" -> 1
      [] step = "begin" -> 2
      [] step = "command" -> 3
      [] step = "end" -> 4
      [] step = "submit" -> 5
      [] step = "wait_idle" -> 6
      [] step = "destroy_fence" -> 7
      [] step = "destroy" -> 8

\* Whether `tail` is what is left of `list` after some of its first elements.
IsSuffix(tail, list) ==
    /\ Len(tail) <= Len(list)
    /\ \A k \in 1 .. Len(tail) : tail[k] = list[Len(list) - Len(tail) + k]

\* C23: execute allocates a command buffer, begins it, runs the closure once,
\* ends it, submits it, waits for the queue to be idle, then frees the fence
\* and the command buffer, in this order; commands are pending only between
\* the submit and the return of the wait, and only those of the one running
\* execute: none is pending when execute returns, when the next execute
\* starts or when fill has returned.
C23_ExecuteOrder ==
    /\ [][exec_pc' # exec_pc =>
             \/ exec_pc \in {"none", "destroy"} /\ exec_pc' = "new"
             \/ exec_pc = "destroy" /\ exec_pc' = "none"
             \/ /\ exec_pc \notin {"none", "destroy"}
                /\ exec_pc' # "none"
                /\ ExecRank(exec_pc') = ExecRank(exec_pc) + 1]_vars
    /\ [](/\ exec_pc = "begin" => command_buffer.state = "initial"
          /\ exec_pc = "command" =>
                command_buffer = [state |-> "recording", commands |-> <<>>]
          /\ exec_pc = "end" =>
                command_buffer =
                   [state |-> "recording", commands |-> JobCommands(fill_pc)]
          /\ exec_pc = "submit" =>
                command_buffer =
                   [state |-> "executable", commands |-> JobCommands(fill_pc)]
          /\ queue # <<>> =>
                /\ exec_pc = "wait_idle"
                /\ IsSuffix(queue, JobCommands(fill_pc))
          /\ exec_pc \in {"destroy_fence", "destroy"} =>
                command_buffer.state = "invalid"
          /\ Cardinality(Allocated) - 1 <=
                Cardinality({k \in 1 .. Len(destroyed) :
                               destroyed[k].kind = "command_buffer"})
          /\ fill_pc = "done" =>
                /\ exec_pc = "none"
                /\ command_buffer.state = "freed")

C23_Witness ==
    /\ exec_pc = "wait_idle"
    /\ fill_pc = "create_mipmaps"
    /\ Len(queue) = 1
    /\ Cardinality(Allocated) = 3

\* C24: the frame-done fence of the slot is reset only in a call whose first
\* step waited on that fence, and is signaled when it is reset; the reset is
\* followed at once by the submit that is given that fence; and a frame-done
\* fence is unsignaled only while a batch that will signal it is pending.
C24_ResetThenSubmit ==
    /\ [][Submit =>
             /\ Did("wait_fence")
             /\ StepOf("wait_fence").fence = <<"signaled_fences", FrameFence(frame)>>
             /\ signaled_fences[FrameFence(frame)].signaled]_vars
    /\ [](/\ \A k \in 1 .. Len(steps) :
                steps[k].op = "reset_fence" =>
                   /\ k < Len(steps)
                   /\ steps[k + 1].op = "submit"
                   /\ steps[k + 1].fence = steps[k].fence
          /\ \A f \in Slots :
                ~signaled_fences[f].signaled =>
                   \E s \in Slots : Pending(s) /\ submissions[s].fence = f)

C24_Witness ==
    /\ pc = "idle"
    /\ calls = 2
    /\ ~signaled_fences[1].signaled
    /\ signaled_fences[0].signaled
    /\ Pending(1)

\* C28: every entry of unsignaled_fences is the null handle, no step assigns
\* the field, and no draw_frame call waits on a prior-use fence.
C28_PriorFenceNeverWaited ==
    /\ [](/\ \A s \in Slots : Fence_is_null(unsignaled_fences[s])
          /\ ~Did("prior_fence_wait")
          /\ pc = "prior_fence" => ~PriorWaitNeeded(unsignaled_fences[frame]))
    /\ [][unsignaled_fences' = unsignaled_fences]_vars

C28_Witness ==
    /\ pc = "reset"
    /\ calls = 2
    /\ submissions[1].state = "pending"
    /\ image_index = submissions[1].command_buffer

\* The blits fill has submitted: the entry of fill_log and the place in it.
SubmittedBlits ==
    {p \in (1 .. Len(fill_log)) \X (1 .. 3 * MaxExtent) :
        /\ fill_log[p[1]].op = "submit"
        /\ p[2] <= Len(fill_log[p[1]].commands)
        /\ fill_log[p[1]].commands[p[2]].op = "blit"}

BlitAt(p) == fill_log[p[1]].commands[p[2]]

\* C25: when Image::fill has returned, every mip level of the image is in
\* SHADER_READ_ONLY_OPTIMAL, whatever the number of levels, level 0 holds the
\* texels, and every level i >= 1 was written by exactly one blit, from level
\* i - 1.
C25_EveryLevelReadable ==
    (fill_target = "Image" /\ fill_pc = "done") =>
       /\ \A l \in DOMAIN image_levels :
             image_levels[l].layout = "SHADER_READ_ONLY_OPTIMAL"
       /\ image_levels[0].data = "texels"
       /\ \A l \in DOMAIN image_levels \ {0} :
             /\ Cardinality({p \in SubmittedBlits : BlitAt(p).dst_level = l}) = 1
             /\ \A p \in SubmittedBlits :
                   BlitAt(p).dst_level = l => BlitAt(p).src_level = l - 1
       /\ \A p \in SubmittedBlits : BlitAt(p).dst_level \in DOMAIN image_levels \ {0}

C25_Witness ==
    /\ fill_target = "Image"
    /\ fill_pc = "done"
    /\ extent = [width |-> 1, height |-> MaxExtent]
    /\ Cardinality(SubmittedBlits) = ImageMipLevels - 1
    /\ linear_filter

\* The commands fill has submitted for a job.
SubmittedFor(job) ==
    {fill_log[k].commands :
        k \in {j \in 1 .. Len(fill_log) :
                 fill_log[j].op = "submit" /\ fill_log[j].job = job}}

\* C27: when the device cannot filter the format linearly, create_mipmaps
\* gives one message to error! and goes on: it submits the commands it submits
\* on a device that can, every blit with the linear filter, and fill leaves
\* every level in SHADER_READ_ONLY_OPTIMAL.
C27_UnsupportedFilterGoesOn ==
    (fill_target = "Image" /\ ~linear_filter) =>
       /\ fill_pc \in {"create_mipmaps", "destroy", "done"} =>
             errors = <<"Physical device dont support optimal tiling with linear filtering">>
       /\ fill_pc \in {"destroy", "done"} =>
             SubmittedFor("create_mipmaps") =
                {create_mipmaps(ImageMipLevels, extent)}
       /\ \A p \in SubmittedBlits : BlitAt(p).filter = "LINEAR"
       /\ fill_pc = "done" =>
             \A l \in DOMAIN image_levels :
                image_levels[l].layout = "SHADER_READ_ONLY_OPTIMAL"

C27_Witness ==
    /\ fill_target = "Image"
    /\ fill_pc = "done"
    /\ ~linear_filter
    /\ Len(errors) = 1
    /\ ImageMipLevels = 3
    /\ image_levels[2].data = "undefined"

\* The memory types of the device that have all of `flags` and whose bit is
\* set in the memory_type_bits of the resource.
SuitableTypes(flags) ==
    {i \in 0 .. (Len(argument.memory_types) - 1) :
        /\ \A f \in flags : f \in argument.memory_types[i + 1]
        /\ argument.memory_type_bits % (2 ^ (i + 1)) >= 2 ^ i}

\* C26: Memory::type_index returns the lowest index of a memory type that has
\* every requested flag and whose bit is set in memory_type_bits, and panics
\* when there is none; the type it returns for a staging buffer is host-visible
\* and host-coherent, the one for a vertex or index buffer is device-local.
C26_MemoryTypeChoice ==
    (callee = "Memory::type_index" /\ returned # <<>>) =>
       LET flags == IF argument.constructor = "from_staging_data"
                    THEN {"HOST_VISIBLE", "HOST_COHERENT"}
                    ELSE {"DEVICE_LOCAL"}
       IN IF SuitableTypes(flags) = {} THEN returned[1].panicked
          ELSE /\ ~returned[1].panicked
               /\ returned[1].index \in SuitableTypes(flags)
               /\ \A i \in SuitableTypes(flags) : returned[1].index <= i
               /\ flags \subseteq argument.memory_types[returned[1].index + 1]

C26_Witness ==
    /\ callee = "Memory::type_index"
    /\ argument.constructor = "from_staging_data"
    /\ argument.memory_types =
          <<{"HOST_VISIBLE"}, {"DEVICE_LOCAL", "HOST_VISIBLE", "HOST_COHERENT"},
            {"HOST_VISIBLE", "HOST_COHERENT"}>>
    /\ argument.memory_type_bits = 5
    /\ returned = <<[panicked |-> FALSE, index |-> 2]>>

\* C29: every uniform buffer that a draw of a submitted frame reads through its
\* descriptor set has been written by UniformBuffer::update when the frame is
\* submitted.
C29_ReadBuffersWritten ==
    [][Submit =>
         \A b \in ReadsOf(command_buffers[image_index].draws) :
            uniform_buffers[b] = "ubo"]_vars

\* C30: the sampler stored under an entity's id is created with the number of
\* mip levels of the texture image stored under that id, in whatever order the
\* two maps are iterated.
C30_SamplerOfOwnImage ==
    (callee = "Renderer::new" /\ returned # <<>>) =>
       \A e \in DOMAIN argument.extents :
          returned[1][e].max_lod = Image_mip_levels(argument.extents[e])

\* The indices of Renderer.framebuffers: one framebuffer per swapchain image
\* view.
FramebufferIndices == Images

\* C31: whenever draw_frame holds an acquired image index, the index is one of
\* command_buffers, of uniform_buffers and of framebuffers, each of which has
\* one element per swapchain image; the slot index is always one of both
\* semaphore vectors and of both fence vectors.
C31_IndicesInBounds ==
    /\ DOMAIN command_buffers = Images
    /\ DOMAIN uniform_buffers = Images
    /\ image_index # NoImage =>
          /\ image_index \in DOMAIN command_buffers
          /\ image_index \in DOMAIN uniform_buffers
          /\ image_index \in FramebufferIndices
    /\ pc \in {"prior_fence", "reset", "update", "record", "submit", "present",
                "advance"} => image_index # NoImage
    /\ frame \in DOMAIN wait_semaphores
    /\ frame \in DOMAIN signal_semaphores
    /\ frame \in DOMAIN signaled_fences
    /\ frame \in DOMAIN unsignaled_fences

C31_Witness ==
    /\ pc = "submit"
    /\ nImages = MaxImages
    /\ image_index = MaxImages - 1
    /\ frame = MAX_FLIGHT_FRAMES_COUNT - 1

\* The places in steps of the calls `op` made by the current draw_frame call.
PlacesOf(op) == {k \in 1 .. Len(steps) : steps[k].op = op}

\* C32: a draw_frame call acquires at most one image, and when the call has
\* ended the image it acquired has been presented exactly once, by that call,
\* after exactly one submit of the command buffer that renders to it.
C32_AcquiredImagePresented ==
    /\ Cardinality(PlacesOf("acquire")) <= 1
    /\ (pc \in {"idle", "panicked"} /\ Did("acquire")) =>
          /\ Cardinality(PlacesOf("submit")) = 1
          /\ Cardinality(PlacesOf("present")) = 1
          /\ StepOf("submit").info.command_buffer = StepOf("acquire").image_index
          /\ StepOf("present").info.image_index = StepOf("acquire").image_index
          /\ \A a \in PlacesOf("acquire"), b \in PlacesOf("submit"),
                c \in PlacesOf("present") : a < b /\ b < c

\* A batch that executes command buffer i is pending: the command buffer is
\* in the pending state, whatever the host has recorded into it since.
InPendingState(i) ==
    \E s \in Slots : Pending(s) /\ submissions[s].command_buffer = i

\* C33: the command buffer draw_frame hands to the submit is in the executable
\* state: the call has reset it, begun it, recorded into it and ended it, in
\* this order, and it is not in the pending state of an earlier submit.
C33_SubmittedExecutable ==
    [][Submit =>
         /\ command_buffers[image_index].state = "executable"
         /\ Did("reset") /\ Did("record")
         /\ StepOf("reset").command_buffer = image_index
         /\ StepOf("record").command_buffer = image_index
         /\ \A a \in PlacesOf("reset"), b \in PlacesOf("record") : a < b
         /\ ~InPendingState(image_index)]_vars

\* floor(x / 2^k) of a u32 x, as a u32, and no less than 1.
ShiftedOrOne(x, k) ==
    IF k = 0 THEN (IF x.half = 0 /\ x.bit = 0 THEN u32(1) ELSE x)
    ELSE IF x.half \div (2 ^ (k - 1)) = 0 THEN u32(1)
    ELSE u32(x.half \div (2 ^ (k - 1)))

\* The i32 n is the u32 x.
IsU32(n, x) == n >= 0 /\ n \div 2 = x.half /\ n % 2 = x.bit

\* C34: with mip_levels = floor(log2(max(width, height))) + 1, the blit into
\* level i reads max(1, floor(width / 2^(i-1))) by max(1, floor(height /
\* 2^(i-1))) and writes max(1, floor(width / 2^i)) by max(1, floor(height /
\* 2^i)); no region has a zero dimension and the last level is 1 by 1.
C34_BlitRegionsHalve ==
    (callee = "Image::create_mipmaps" /\ returned # <<>>) =>
        LET blits == returned[1]
            ext == argument.extent
        IN /\ Len(blits) = argument.mip_levels - 1
           /\ \A i \in 1 .. Len(blits) :
                 /\ IsU32(blits[i].src.width, ShiftedOrOne(ext.width, i - 1))
                 /\ IsU32(blits[i].src.height, ShiftedOrOne(ext.height, i - 1))
                 /\ IsU32(blits[i].dst.width, ShiftedOrOne(ext.width, i))
                 /\ IsU32(blits[i].dst.height, ShiftedOrOne(ext.height, i))
                 /\ blits[i].src.width # 0 /\ blits[i].src.height # 0
                 /\ blits[i].dst.width # 0 /\ blits[i].dst.height # 0
           /\ Len(blits) >= 1 =>
                 blits[Len(blits)].dst = [width |-> 1, height |-> 1]

\* C35: Image::size returns width * height * 4, the number of bytes of the
\* RGBA pixel array, for every extent: no multiplication overflows.
C35_ImageSizeExact ==
    (callee = "Image::size" /\ returned # <<>>) =>
       /\ ~returned[1].panicked
       /\ returned[1].size % 4 = 0
       /\ returned[1].size \div 4 = argument.width * argument.height

=============================================================================
